---- MODULE Spec2Model ----
(***************************************************************************)
(* Verification model of dev_memory_mcp: the ContextManager               *)
(* (src/src/core/context.ts) running against the memory store and the     *)
(* vector store (src/tests/mocks/stores.ts), and the MigrationService     *)
(* (src/src/core/migration/service.ts) with its transformer.              *)
(*                                                                         *)
(* Every `await` of a handler is one step: the backend handles the call   *)
(* (applies it and answers success, answers success:false without         *)
(* applying it, or raises) and the handler runs on to its next await or   *)
(* to its return.  A backend keeps its own copy of what it is given.      *)
(***************************************************************************)
EXTENDS Integers, Sequences, FiniteSets, TLC

VARIABLES
  nodes,        \* contextGraph.nodes : id -> ContextEntry
  edges,        \* contextGraph.edges : sequence of {source,target,type,strength}
  memories,     \* MockMemoryStore.memories, in insertion order
  relationships,\* MockMemoryStore.relationships : id -> sequence of <<target,type>>
  vectors,      \* MockVectorStore.vectors : id -> VectorData
  pc,           \* position of each caller's operation
  op,           \* the operation each caller runs, with its arguments
  idx,          \* loop index of the running operation
  acc,          \* local results accumulated by the running operation
  res,          \* result object returned by the operation
  fault,        \* first backend sub-operation that failed in the running call
  pre,          \* graph and backends at the start of the running call
  calls,        \* backend calls issued by the running call
  lastDone,     \* the caller whose operation completed most recently
  memOK,        \* entry versions whose storeMemory reported success
  vecOK,        \* entry versions whose upsertVectors reported success
  opCount,      \* operations started
  faults,       \* backend failures injected
  mig,          \* state of the MigrationService and of its migrate call
  tr,           \* state of a run of the DefaultMigrationTransformer
  obs,          \* what a caller has read through getSnapshots / getLatestSnapshot
  store         \* a PineconeStore: its fields, its connection probes, its timer

ctxVars == <<nodes, edges, memories, relationships, vectors, pc, op, idx, acc,
             res, fault, pre, calls, lastDone, memOK, vecOK, opCount, faults>>
vars == <<nodes, edges, memories, relationships, vectors, pc, op, idx, acc,
          res, fault, pre, calls, lastDone, memOK, vecOK, opCount, faults, mig, tr, obs, store>>

----------------------------------------------------------------------------
(* Bounds *)

MaxOps == 3        \* operations started in a sequential run
MaxConcOps == 2    \* operations started in a concurrent run
MaxFaults == 1     \* backend calls that fail or raise in one run

Procs == {1, 2}
Ids == {"a", "b"}
Contents == {"c1", "c2"}
Types == {"note", "code"}

NoVector == -1
EMBEDDING_DIMENSION == 1536
Vectors == {NoVector, EMBEDDING_DIMENSION}

\* the length of a vector that is not an embedding
WrongDimension == 3

\* metadata.timestamp as a number; BadTimestamp stands for a value that is
\* not a number (a string, or undefined when the field is missing), NaN for
\* the number NaN, Fractional for a number that is not an integer (1000.5)
BadTimestamp == -99
NaN == -98
Fractional == -97
Timestamps == {0, 1000}

Other(id) == CHOOSE x \in Ids : x # id

Rel(t, ty, s) == [targetId |-> t, type |-> ty, strength |-> s]

\* strengths are tenths: 8 is 0.8, 10 is 1.0
\* "x" is an id no entry carries
OneRel(id) == <<Rel(Other(id), "references", 8)>>
TwoRels(id) == <<Rel("x", "related", 5), Rel(Other(id), "references", 8)>>

Entry(id, c, v, ty, ts, rels) ==
  [id |-> id, content |-> c, vector |-> v,
   metadata |-> [type |-> ty, timestamp |-> ts, relationships |-> rels]]

\* an entry whose metadata is undefined
NoMetadataEntry == [id |-> "a", content |-> "c1", vector |-> NoVector]

HasMetadata(e) == "metadata" \in DOMAIN e

Entries ==
  {Entry(id, "c1", EMBEDDING_DIMENSION, "note", 1000, <<>>) : id \in Ids}
  \cup {Entry("a", "c1", NoVector, "note", 1000, <<>>)}
  \cup {Entry("a", "c2", EMBEDDING_DIMENSION, "note", 1000, <<>>)}
  \cup {Entry(id, "c1", EMBEDDING_DIMENSION, "note", 1000, OneRel(id)) : id \in Ids}
  \cup {Entry("b", "c1", NoVector, "note", 1000, TwoRels("b"))}
  \cup {Entry("a", "c1", EMBEDDING_DIMENSION, "note", ts, <<>>) :
          ts \in {0, BadTimestamp, NaN}}
  \cup {Entry("a", "c1", NoVector, "note", Fractional, <<>>),
        Entry("a", "c1", WrongDimension, "note", 1000, <<>>)}
  \cup {NoMetadataEntry}

\* the entries callers pass when they run concurrently
ConcEntries ==
  {Entry("a", c, EMBEDDING_DIMENSION, "note", 1000, <<>>) : c \in Contents}
  \cup {Entry("a", "c1", EMBEDDING_DIMENSION, "note", 1000, OneRel("a")),
        Entry("b", "c1", NoVector, "note", 1000, TwoRels("b"))}

----------------------------------------------------------------------------
(* Maps, as JavaScript Map objects *)

EmptyMap == [x \in {} |-> x]

Has(m, k) == k \in DOMAIN m

MapSet(m, k, v) == [x \in (DOMAIN m) \cup {k} |-> IF x = k THEN v ELSE m[x]]

MapDelete(m, k) == [x \in (DOMAIN m) \ {k} |-> m[x]]

RECURSIVE SeqFilterOut(_, _)
\* the elements of s whose key is not k, in order
SeqFilterOut(s, k) ==
  IF s = <<>> THEN <<>>
  ELSE IF Head(s)[1] = k THEN SeqFilterOut(Tail(s), k)
       ELSE <<Head(s)>> \o SeqFilterOut(Tail(s), k)

None == <<>>
Some(x) == <<x>>
IsSome(o) == o # <<>>

SeqIndex(s, id) == IF \E i \in 1..Len(s) : s[i].id = id
                   THEN CHOOSE i \in 1..Len(s) : s[i].id = id
                   ELSE 0

RECURSIVE SelectSeqBy(_, _)
\* Array.prototype.filter with the predicate given as the set of kept values
SelectSeqBy(s, keep) ==
  IF s = <<>> THEN <<>>
  ELSE IF Head(s) \in keep THEN <<Head(s)>> \o SelectSeqBy(Tail(s), keep)
       ELSE SelectSeqBy(Tail(s), keep)

Take(s, n) == IF Len(s) <= n THEN s ELSE SubSeq(s, 1, n)

----------------------------------------------------------------------------
(* Responses *)

Ok == [success |-> TRUE, error |-> ""]
Err(msg) == [success |-> FALSE, error |-> msg]

\* what a backend call does: handled, answered success:false, or raised
Outcomes == IF faults < MaxFaults THEN {"ok", "fail", "raise"} ELSE {"ok"}

BackendDown == "Connection failed"

----------------------------------------------------------------------------
(* MockMemoryStore *)

\* faulty variant of StoreArg: the vector is left out of the stored metadata
StoreArgWithoutVector(e) ==
  [type |-> e.metadata.type, timestamp |-> e.metadata.timestamp,
   relationships |-> e.metadata.relationships, id |-> e.id, vector |-> NoVector]

\* the metadata argument ContextManager passes to storeMemory
StoreArg(e) ==
  [type |-> e.metadata.type, timestamp |-> e.metadata.timestamp,
   relationships |-> e.metadata.relationships, id |-> e.id, vector |-> e.vector]

\* Map.set on the insertion-ordered memories
StoreMemory(mems, content, metadata) ==
  LET entry == [id |-> metadata.id, content |-> content, vector |-> metadata.vector,
                metadata |-> [type |-> metadata.type,
                              timestamp |-> metadata.timestamp,
                              relationships |-> metadata.relationships]]
      i == SeqIndex(mems, metadata.id)
  IN IF i = 0 THEN Append(mems, entry) ELSE [mems EXCEPT ![i] = entry]

\* entry.metadata[key] of a stored entry; "undefined" when the key is absent
MetadataGet(entry, key) ==
  IF key \in DOMAIN entry.metadata THEN entry.metadata[key] ELSE "undefined"

MatchesFilter(entry, filter) ==
  \A key \in DOMAIN filter : MetadataGet(entry, key) = filter[key]

RECURSIVE FilterMemories(_, _)
FilterMemories(mems, filter) ==
  IF mems = <<>> THEN <<>>
  ELSE IF MatchesFilter(Head(mems), filter)
       THEN <<Head(mems)>> \o FilterMemories(Tail(mems), filter)
       ELSE FilterMemories(Tail(mems), filter)

DefaultTopK == 10

RetrieveMemories(mems, options) ==
  LET kept == FilterMemories(mems, options.filter)
      hits == [i \in 1..Len(kept) |->
                 [content |-> kept[i].content,
                  metadata |-> [id |-> kept[i].id,
                                type |-> kept[i].metadata.type,
                                timestamp |-> kept[i].metadata.timestamp,
                                vector |-> kept[i].vector,
                                relationships |-> kept[i].metadata.relationships],
                  score |-> 10]]
  IN Take(hits, IF options.topK # 0 THEN options.topK ELSE DefaultTopK)

DeleteMemoriesMem(mems, id) ==
  LET i == SeqIndex(mems, id)
  IN IF i = 0 THEN mems
     ELSE [j \in 1..(Len(mems) - 1) |-> IF j < i THEN mems[j] ELSE mems[j + 1]]

\* faulty variant of DeleteMemoriesRel: only the relations of id itself are dropped
DeleteOwnRelations(rels, id) == [x \in (DOMAIN rels) \ {id} |-> rels[x]]

\* relationships.delete(id); relationships.forEach(relations => relations.delete(id))
DeleteMemoriesRel(rels, id) ==
  [x \in (DOMAIN rels) \ {id} |-> SeqFilterOut(rels[x], id)]

\* Map.set(targetId, type) on the relations of sourceId
TrackRelationshipRel(rels, sourceId, targetId, type) ==
  LET old == IF Has(rels, sourceId) THEN rels[sourceId] ELSE <<>>
      at == IF \E i \in 1..Len(old) : old[i][1] = targetId
            THEN CHOOSE i \in 1..Len(old) : old[i][1] = targetId ELSE 0
      new == IF at = 0 THEN Append(old, <<targetId, type>>)
             ELSE [old EXCEPT ![at] = <<targetId, type>>]
  IN MapSet(rels, sourceId, new)

\* memory.metadata.relationships.push({targetId, type, strength: 1.0})
TrackRelationshipMem(mems, sourceId, targetId, type) ==
  LET i == SeqIndex(mems, sourceId)
  IN IF i = 0 THEN mems
     ELSE [mems EXCEPT ![i].metadata.relationships = Append(@, Rel(targetId, type, 10))]

\* relationshipTypes is the joined type string, "" when not given
GetRelatedMemories(rels, memoryId, relationshipTypes) ==
  IF ~Has(rels, memoryId) THEN <<>>
  ELSE LET all == rels[memoryId]
           keep == {r \in {all[i] : i \in 1..Len(all)} :
                      relationshipTypes = "" \/ r[2] = relationshipTypes}
           kept == SelectSeqBy(all, keep)
       IN [i \in 1..Len(kept) |-> [id |-> kept[i][1], type |-> kept[i][2]]]

----------------------------------------------------------------------------
(* MockVectorStore *)

\* the record ContextManager upserts for an entry
VectorDataOf(e) ==
  [id |-> e.id, values |-> e.vector,
   metadata |-> [type |-> e.metadata.type, timestamp |-> e.metadata.timestamp,
                 relationships |-> e.metadata.relationships, content |-> e.content]]

RECURSIVE SetAll(_, _)
SetAll(vecs, list) ==
  IF list = <<>> THEN vecs
  ELSE SetAll(MapSet(vecs, Head(list).id, Head(list)), Tail(list))

\* response of upsertVectors on a connected store
UpsertResponse(list) ==
  IF list = <<>> THEN Err("No vectors provided")
  ELSE IF \E i \in 1..Len(list) : list[i].values <= 0 THEN Err("Invalid vector format")
  ELSE Ok

UpsertVectors(vecs, list) ==
  IF UpsertResponse(list).success THEN SetAll(vecs, list) ELSE vecs

DeleteVectors(vecs, id) == MapDelete(vecs, id)

----------------------------------------------------------------------------
(* ContextManager: shared pieces *)

Idle == [name |-> "none"]
NoRes == [kind |-> "none"]
NoPre == [kind |-> "none"]

\* a result object handed back to the caller
Return(r) == [kind |-> "return", success |-> r.success, error |-> r.error,
              contexts |-> <<>>, hasContexts |-> FALSE]

ReturnContexts(r, cs) == [kind |-> "return", success |-> r.success, error |-> r.error,
                          contexts |-> cs, hasContexts |-> TRUE]

\* an exception leaving the operation
Raise(msg) == [kind |-> "raise", success |-> FALSE, error |-> msg,
               contexts |-> <<>>, hasContexts |-> FALSE]

\* !x of a timestamp: 0 and NaN are falsy, and so is undefined
Falsy(x) == x \in {0, NaN}

\* typeof x === 'number'
IsNumber(x) == x # BadTimestamp

\* validateMetadata: !metadata.timestamp || typeof metadata.timestamp !== 'number'
validateMetadata(metadata) ==
  ~(Falsy(metadata.timestamp) \/ ~IsNumber(metadata.timestamp))

EdgeOf(e, rel) == [source |-> e.id, target |-> rel.targetId,
                   type |-> rel.type, strength |-> rel.strength]

Snapshot == [nodes |-> nodes, edges |-> edges, memories |-> memories,
             relationships |-> relationships, vectors |-> vectors]

OpBound == IF pc[2] = "off" THEN MaxOps ELSE MaxConcOps

\* a caller starts an operation
Begin(p, o) ==
  /\ pc[p] = "idle"
  /\ opCount < OpBound
  /\ opCount' = opCount + 1
  /\ op' = [op EXCEPT ![p] = o]
  /\ pre' = [pre EXCEPT ![p] = Snapshot]
  /\ fault' = [fault EXCEPT ![p] = "none"]
  /\ idx' = [idx EXCEPT ![p] = 0]
  /\ acc' = [acc EXCEPT ![p] = <<>>]

\* the operation hands r to its caller
Finish(p, r) ==
  /\ pc' = [pc EXCEPT ![p] = "done"]
  /\ res' = [res EXCEPT ![p] = r]
  /\ lastDone' = p

\* the operation awaits the backend call c
Await(p, label, c) ==
  /\ pc' = [pc EXCEPT ![p] = label]
  /\ calls' = [calls EXCEPT ![p] = Append(@, c)]
  /\ UNCHANGED <<res, lastDone>>

\* the backend call of p answers with outcome o
Answer(p, o, phase) ==
  /\ faults' = IF o = "ok" THEN faults ELSE faults + 1
  /\ fault' = [fault EXCEPT ![p] = IF o # "ok" /\ @ = "none" THEN phase ELSE @]

\* the answer the manager sees from a backend call that did not raise
Response(o, handled) == IF o = "ok" THEN handled ELSE Err(BackendDown)

----------------------------------------------------------------------------
(* ContextManager.addContext *)

\* context.ts 75-93: update the graph, then walk the declared relationships
AddUpdateGraph(p, e) ==
  /\ nodes' = MapSet(nodes, e.id, e)
  /\ IF e.metadata.relationships # <<>>
     THEN /\ edges' = Append(edges, EdgeOf(e, e.metadata.relationships[1]))
          /\ idx' = [idx EXCEPT ![p] = 1]
          /\ Await(p, "add_track", "trackRelationship")
     ELSE /\ edges' = edges
          /\ idx' = idx
          /\ calls' = calls
          /\ Finish(p, Return(Ok))

\* faulty variant of AddCaught: the exception is thrown on to the caller
AddRethrown(msg) == Raise("Failed to add context: " \o msg)

\* context.ts 94-100: the catch block of addContext
AddCaught(msg) == Return(Err("Failed to add context: " \o msg))

\* context.ts 54: if (!memoryResponse.success) return memoryResponse
AddStoreFailed(memoryResponse) == ~memoryResponse.success

\* faulty variant of AddVectorFailed: the answer of upsertVectors is not looked at
AddVectorNeverFailed(vectorResponse) == FALSE

\* context.ts 70: if (!vectorResponse.success) return vectorResponse
AddVectorFailed(vectorResponse) == ~vectorResponse.success

AddContext(p, e) ==
  /\ Begin(p, [name |-> "addContext", entry |-> e])
  /\ IF ~HasMetadata(e)
     THEN /\ Finish(p, AddCaught("Cannot read properties of undefined"))
          /\ calls' = [calls EXCEPT ![p] = <<>>]
     ELSE IF ~validateMetadata(e.metadata)
     THEN /\ Finish(p, Return(Err("Invalid metadata: timestamp must be a number")))
          /\ calls' = [calls EXCEPT ![p] = <<>>]
     ELSE /\ pc' = [pc EXCEPT ![p] = "add_store"]
          /\ calls' = [calls EXCEPT ![p] = <<"storeMemory">>]
          /\ UNCHANGED <<res, lastDone>>
  /\ UNCHANGED <<nodes, edges, memories, relationships, vectors, memOK, vecOK, faults, mig, tr, obs, store>>

AddStoreReturn(p) ==
  /\ pc[p] = "add_store"
  /\ LET e == op[p].entry IN
     \E o \in Outcomes :
       /\ Answer(p, o, "storage")
       /\ memories' = IF o = "ok" THEN StoreMemory(memories, e.content, StoreArg(e))
                      ELSE memories
       /\ memOK' = IF o = "ok" THEN memOK \cup {e} ELSE memOK
       /\ IF o = "raise"
          THEN /\ Finish(p, AddCaught(BackendDown))
               /\ UNCHANGED <<nodes, edges, idx, calls>>
          ELSE LET memoryResponse == Response(o, Ok) IN
               IF AddStoreFailed(memoryResponse)
               THEN /\ Finish(p, Return(memoryResponse))
                    /\ UNCHANGED <<nodes, edges, idx, calls>>
               ELSE IF e.vector # NoVector
               THEN /\ Await(p, "add_upsert", "upsertVectors")
                    /\ UNCHANGED <<nodes, edges, idx>>
               ELSE AddUpdateGraph(p, e)
  /\ UNCHANGED <<relationships, vectors, vecOK, op, acc, pre, opCount, mig, tr, obs, store>>

AddUpsertReturn(p) ==
  /\ pc[p] = "add_upsert"
  /\ LET e == op[p].entry
         list == <<VectorDataOf(e)>> IN
     \E o \in Outcomes :
       /\ Answer(p, o, "vector")
       /\ vectors' = IF o = "ok" THEN UpsertVectors(vectors, list) ELSE vectors
       /\ vecOK' = IF o = "ok" /\ UpsertResponse(list).success THEN vecOK \cup {e}
                   ELSE vecOK
       /\ IF o = "raise"
          THEN /\ Finish(p, AddCaught(BackendDown))
               /\ UNCHANGED <<nodes, edges, idx, calls>>
          ELSE LET vectorResponse == Response(o, UpsertResponse(list)) IN
               IF AddVectorFailed(vectorResponse)
               THEN /\ Finish(p, Return(vectorResponse))
                    /\ UNCHANGED <<nodes, edges, idx, calls>>
               ELSE AddUpdateGraph(p, e)
  /\ UNCHANGED <<memories, relationships, memOK, op, acc, pre, opCount, mig, tr, obs, store>>

AddTrackReturn(p) ==
  /\ pc[p] = "add_track"
  /\ LET e == op[p].entry
         rels == e.metadata.relationships
         rel == rels[idx[p]] IN
     \E o \in Outcomes :
       /\ Answer(p, o, "relationship")
       /\ IF o = "raise"
          THEN /\ Finish(p, AddCaught(BackendDown))
               /\ UNCHANGED <<edges, memories, relationships, idx, calls>>
          ELSE /\ relationships' = IF o = "ok"
                                   THEN TrackRelationshipRel(relationships, e.id, rel.targetId, rel.type)
                                   ELSE relationships
               /\ memories' = IF o = "ok"
                              THEN TrackRelationshipMem(memories, e.id, rel.targetId, rel.type)
                              ELSE memories
               /\ IF idx[p] < Len(rels)
                  THEN /\ edges' = Append(edges, EdgeOf(e, rels[idx[p] + 1]))
                       /\ idx' = [idx EXCEPT ![p] = @ + 1]
                       /\ Await(p, "add_track", "trackRelationship")
                  ELSE /\ Finish(p, Return(Ok))
                       /\ UNCHANGED <<edges, idx, calls>>
  /\ UNCHANGED <<nodes, vectors, memOK, vecOK, op, acc, pre, opCount, mig, tr, obs, store>>

----------------------------------------------------------------------------
(* ContextManager.updateContextMetadata *)

\* fields of metadata a caller may pass to updateContextMetadata
Partials(id) == {[type |-> "code"], [timestamp |-> 2000],
                 [relationships |-> <<Rel(Other(id), "related", 5)>>]}

\* faulty variant of MergeMetadata: the fields of the node win over the partial
MergeMetadataOldWins(old, partial) ==
  [k \in (DOMAIN old) \cup (DOMAIN partial) |->
     IF k \in DOMAIN old THEN old[k] ELSE partial[k]]

\* {...node.metadata, ...metadata}
MergeMetadata(old, partial) ==
  [k \in (DOMAIN old) \cup (DOMAIN partial) |->
     IF k \in DOMAIN partial THEN partial[k] ELSE old[k]]

\* {...node, metadata: {...node.metadata, ...metadata}}
UpdatedEntry(node, partial) ==
  [node EXCEPT !.metadata = MergeMetadata(node.metadata, partial)]

\* context.ts 302-308: the catch block of updateContextMetadata
UpdateCaught(msg) == Return(Err("Failed to update context metadata: " \o msg))

\* context.ts 277: if (!memoryResponse.success) return memoryResponse
UpdateStoreFailed(memoryResponse) == ~memoryResponse.success

\* context.ts 293: if (!vectorResponse.success) return vectorResponse
UpdateVectorFailed(vectorResponse) == ~vectorResponse.success

\* faulty variant of UpdateNotFound: an absent id is reported as updated
UpdateNotFoundAsSuccess == Return(Ok)

\* context.ts 255-260: if (!node) return {success: false, error: 'Context not found'}
UpdateNotFound == Return(Err("Context not found"))

UpdateContextMetadata(p, contextId, partial) ==
  /\ Begin(p, [name |-> "updateContextMetadata", id |-> contextId, partial |-> partial,
               entry |-> IF Has(nodes, contextId)
                         THEN UpdatedEntry(nodes[contextId], partial) ELSE Idle])
  /\ IF ~Has(nodes, contextId)
     THEN /\ Finish(p, UpdateNotFound)
          /\ calls' = [calls EXCEPT ![p] = <<>>]
     ELSE /\ pc' = [pc EXCEPT ![p] = "upd_store"]
          /\ calls' = [calls EXCEPT ![p] = <<"storeMemory">>]
          /\ UNCHANGED <<res, lastDone>>
  /\ UNCHANGED <<nodes, edges, memories, relationships, vectors, memOK, vecOK, faults, mig, tr, obs, store>>

UpdateStoreReturn(p) ==
  /\ pc[p] = "upd_store"
  /\ LET e == op[p].entry IN
     \E o \in Outcomes :
       /\ Answer(p, o, "storage")
       /\ memories' = IF o = "ok" THEN StoreMemory(memories, e.content, StoreArg(e))
                      ELSE memories
       /\ memOK' = IF o = "ok" THEN memOK \cup {e} ELSE memOK
       /\ IF o = "raise"
          THEN /\ Finish(p, UpdateCaught(BackendDown))
               /\ UNCHANGED <<nodes, calls>>
          ELSE LET memoryResponse == Response(o, Ok) IN
               IF UpdateStoreFailed(memoryResponse)
               THEN /\ Finish(p, Return(memoryResponse))
                    /\ UNCHANGED <<nodes, calls>>
               ELSE IF e.vector # NoVector
               THEN /\ Await(p, "upd_upsert", "upsertVectors")
                    /\ UNCHANGED nodes
               ELSE /\ nodes' = MapSet(nodes, op[p].id, e)
                    /\ Finish(p, Return(Ok))
                    /\ UNCHANGED calls
  /\ UNCHANGED <<edges, relationships, vectors, vecOK, op, idx, acc, pre, opCount, mig, tr, obs, store>>

UpdateUpsertReturn(p) ==
  /\ pc[p] = "upd_upsert"
  /\ LET e == op[p].entry
         list == <<VectorDataOf(e)>> IN
     \E o \in Outcomes :
       /\ Answer(p, o, "vector")
       /\ vectors' = IF o = "ok" THEN UpsertVectors(vectors, list) ELSE vectors
       /\ vecOK' = IF o = "ok" /\ UpsertResponse(list).success THEN vecOK \cup {e}
                   ELSE vecOK
       /\ IF o = "raise"
          THEN /\ Finish(p, UpdateCaught(BackendDown))
               /\ UNCHANGED nodes
          ELSE LET vectorResponse == Response(o, UpsertResponse(list)) IN
               IF UpdateVectorFailed(vectorResponse)
               THEN /\ Finish(p, Return(vectorResponse))
                    /\ UNCHANGED nodes
               ELSE /\ nodes' = MapSet(nodes, op[p].id, e)
                    /\ Finish(p, Return(Ok))
  /\ UNCHANGED <<edges, memories, relationships, memOK, op, idx, acc, pre, calls, opCount, mig, tr, obs, store>>

----------------------------------------------------------------------------
(* ContextManager.deleteContext *)

RECURSIVE EdgesWithout(_, _)

\* faulty variant of EdgesWithout: edges pointing at contextId are kept
EdgesWithoutSource(es, contextId) ==
  SelectSeq(es, LAMBDA e : e.source # contextId)

\* edges.filter(e => e.source !== contextId && e.target !== contextId)
EdgesWithout(es, contextId) ==
  IF es = <<>> THEN <<>>
  ELSE IF Head(es).source # contextId /\ Head(es).target # contextId
       THEN <<Head(es)>> \o EdgesWithout(Tail(es), contextId)
       ELSE EdgesWithout(Tail(es), contextId)

\* context.ts 335-341: the catch block of deleteContext
DeleteCaught(msg) == Return(Err("Failed to delete context: " \o msg))

\* context.ts 318: if (!vectorResponse.success) return vectorResponse
DeleteVectorFailed(vectorResponse) == ~vectorResponse.success

\* context.ts 324: if (!memoryResponse.success) return memoryResponse
DeleteMemoryFailed(memoryResponse) == ~memoryResponse.success

DeleteContext(p, contextId) ==
  /\ Begin(p, [name |-> "deleteContext", id |-> contextId])
  /\ pc' = [pc EXCEPT ![p] = "del_vector"]
  /\ calls' = [calls EXCEPT ![p] = <<"deleteVectors">>]
  /\ UNCHANGED <<res, lastDone>>
  /\ UNCHANGED <<nodes, edges, memories, relationships, vectors, memOK, vecOK, faults, mig, tr, obs, store>>

DeleteVectorReturn(p) ==
  /\ pc[p] = "del_vector"
  /\ \E o \in Outcomes :
       /\ Answer(p, o, "delete_vector")
       /\ vectors' = IF o = "ok" THEN DeleteVectors(vectors, op[p].id) ELSE vectors
       /\ IF o = "raise"
          THEN /\ Finish(p, DeleteCaught(BackendDown))
               /\ UNCHANGED calls
          ELSE LET vectorResponse == Response(o, Ok) IN
               IF DeleteVectorFailed(vectorResponse)
               THEN /\ Finish(p, Return(vectorResponse))
                    /\ UNCHANGED calls
               ELSE Await(p, "del_memory", "deleteMemories")
  /\ UNCHANGED <<nodes, edges, memories, relationships, memOK, vecOK, op, idx, acc,
                 pre, opCount, mig, tr, obs, store>>

DeleteMemoryReturn(p) ==
  /\ pc[p] = "del_memory"
  /\ \E o \in Outcomes :
       /\ Answer(p, o, "delete_memory")
       /\ memories' = IF o = "ok" THEN DeleteMemoriesMem(memories, op[p].id) ELSE memories
       /\ relationships' = IF o = "ok" THEN DeleteMemoriesRel(relationships, op[p].id)
                           ELSE relationships
       /\ IF o = "raise"
          THEN /\ Finish(p, DeleteCaught(BackendDown))
               /\ UNCHANGED <<nodes, edges>>
          ELSE LET memoryResponse == Response(o, Ok) IN
               IF DeleteMemoryFailed(memoryResponse)
               THEN /\ Finish(p, Return(memoryResponse))
                    /\ UNCHANGED <<nodes, edges>>
               ELSE /\ nodes' = MapDelete(nodes, op[p].id)
                    /\ edges' = EdgesWithout(edges, op[p].id)
                    /\ Finish(p, Return(Ok))
  /\ UNCHANGED <<vectors, memOK, vecOK, op, idx, acc, pre, calls, opCount, mig, tr, obs, store>>

----------------------------------------------------------------------------
(* ContextManager.retrieveContext *)

Options(filter, topK, includeRelated, timeRange, contextTypes) ==
  [filter |-> filter, topK |-> topK, includeRelated |-> includeRelated,
   relationshipTypes |-> "", timeRange |-> timeRange, contextTypes |-> contextTypes]

TimeRange(start, end) == [start |-> start, end |-> end]

QueryOptions ==
  {Options(EmptyMap, 0, FALSE, None, None), Options(EmptyMap, 0, TRUE, None, None)}
  \cup {Options([id |-> "a"], 0, FALSE, None, None)}
  \cup {Options(EmptyMap, 0, FALSE, Some(TimeRange(1000, 1000)), None),
        Options(EmptyMap, 0, FALSE, None, Some({"code"})),
        Options(EmptyMap, 0, FALSE, Some(TimeRange(1001, 2000)), Some({"note", "code"}))}

\* context.ts 171-178: the catch block of retrieveContext
RetrieveCaught(msg) == ReturnContexts(Err("Failed to retrieve context: " \o msg), <<>>)

\* context.ts 125-134: the result built for one backend hit
ResultOf(memory) ==
  [entry |-> [id |-> memory.metadata.id, content |-> memory.content,
              metadata |-> memory.metadata],
   score |-> 0, relatedEntries |-> None]

\* twice the numeric value of a timestamp: Fractional stands for 1000.5
Twice(ts) == IF ts = Fractional THEN 2001 ELSE 2 * ts

\* x <= y on numbers
Leq(x, y) == Twice(x) <= Twice(y)

RECURSIVE FilterTimeRangeExclusive(_, _, _)
\* faulty variant of FilterTimeRange: an entry stamped exactly end is dropped
FilterTimeRangeExclusive(cs, start, end) ==
  IF cs = <<>> THEN <<>>
  ELSE IF Leq(start, Head(cs).entry.metadata.timestamp)
          /\ Leq(Head(cs).entry.metadata.timestamp, end)
          /\ Head(cs).entry.metadata.timestamp # end
       THEN <<Head(cs)>> \o FilterTimeRangeExclusive(Tail(cs), start, end)
       ELSE FilterTimeRangeExclusive(Tail(cs), start, end)

RECURSIVE FilterTimeRange(_, _, _)
\* context.ts 152-158: timestamp >= start && timestamp <= end
FilterTimeRange(cs, start, end) ==
  IF cs = <<>> THEN <<>>
  ELSE IF Leq(start, Head(cs).entry.metadata.timestamp)
          /\ Leq(Head(cs).entry.metadata.timestamp, end)
       THEN <<Head(cs)>> \o FilterTimeRange(Tail(cs), start, end)
       ELSE FilterTimeRange(Tail(cs), start, end)

RECURSIVE FilterTypes(_, _)
FilterTypes(cs, types) ==
  IF cs = <<>> THEN <<>>
  ELSE IF Head(cs).entry.metadata.type \in types
       THEN <<Head(cs)>> \o FilterTypes(Tail(cs), types)
       ELSE FilterTypes(Tail(cs), types)

\* context.ts 151-165: time range first, then context types
PostFilter(cs, options) ==
  LET byTime == IF IsSome(options.timeRange)
                THEN FilterTimeRange(cs, options.timeRange[1].start, options.timeRange[1].end)
                ELSE cs
  IN IF IsSome(options.contextTypes) THEN FilterTypes(byTime, options.contextTypes[1])
     ELSE byTime

\* faulty variant of RelatedNodes: the walk ends at the first unknown id
RelatedNodesUntilUnknown(related, ns) ==
  LET known == {i \in 1..Len(related) : \A j \in 1..i : Has(ns, related[j].id)}
  IN [i \in 1..Cardinality(known) |-> ns[related[i].id]]

RECURSIVE RelatedNodes(_, _)
\* getRelatedContexts: the graph nodes of the related ids, unknown ids skipped
RelatedNodes(related, ns) ==
  IF related = <<>> THEN <<>>
  ELSE IF Has(ns, Head(related).id)
       THEN <<ns[Head(related).id]>> \o RelatedNodes(Tail(related), ns)
       ELSE RelatedNodes(Tail(related), ns)

\* context.ts 112-115: the options retrieveMemories is called with,
\* {...options, includeMetadata: true}
RetrieveRequest(options) ==
  [k \in (DOMAIN options) \cup {"includeMetadata"} |->
     IF k = "includeMetadata" THEN TRUE ELSE options[k]]

RetrieveContext(p, options) ==
  /\ Begin(p, [name |-> "retrieveContext", options |-> options,
               request |-> RetrieveRequest(options)])
  /\ pc' = [pc EXCEPT ![p] = "ret_query"]
  /\ calls' = [calls EXCEPT ![p] = <<"retrieveMemories">>]
  /\ UNCHANGED <<res, lastDone>>
  /\ UNCHANGED <<nodes, edges, memories, relationships, vectors, memOK, vecOK, faults, mig, tr, obs, store>>

RetrieveQueryReturn(p) ==
  /\ pc[p] = "ret_query"
  /\ LET options == op[p].options
         hits == RetrieveMemories(memories, op[p].request)
         results == [i \in 1..Len(hits) |-> ResultOf(hits[i])] IN
     \E o \in Outcomes :
       /\ Answer(p, o, "retrieve")
       /\ CASE o = "raise" ->
                 /\ Finish(p, RetrieveCaught(BackendDown))
                 /\ UNCHANGED <<idx, acc, calls>>
            [] o = "fail" ->
                 /\ Finish(p, Return(Err(BackendDown)))
                 /\ UNCHANGED <<idx, acc, calls>>
            [] o = "ok" ->
                 IF options.includeRelated /\ hits # <<>>
                 THEN /\ acc' = [acc EXCEPT ![p] = results]
                      /\ idx' = [idx EXCEPT ![p] = 1]
                      /\ Await(p, "ret_related", "getRelatedMemories")
                 ELSE /\ Finish(p, ReturnContexts(Ok, PostFilter(results, options)))
                      /\ UNCHANGED <<idx, acc, calls>>
  /\ UNCHANGED <<nodes, edges, memories, relationships, vectors, memOK, vecOK, op,
                 pre, opCount, mig, tr, obs, store>>

RetrieveRelatedReturn(p) ==
  /\ pc[p] = "ret_related"
  /\ LET options == op[p].options
         i == idx[p]
         related == GetRelatedMemories(relationships, acc[p][i].entry.id,
                                       options.relationshipTypes) IN
     \E o \in Outcomes :
       /\ Answer(p, o, "related")
       /\ LET results == IF o = "ok"
                         THEN [acc[p] EXCEPT ![i].relatedEntries =
                                                Some(RelatedNodes(related, nodes))]
                         ELSE acc[p] IN
          IF i < Len(results)
          THEN /\ acc' = [acc EXCEPT ![p] = results]
               /\ idx' = [idx EXCEPT ![p] = i + 1]
               /\ Await(p, "ret_related", "getRelatedMemories")
          ELSE /\ acc' = [acc EXCEPT ![p] = results]
               /\ Finish(p, ReturnContexts(Ok, PostFilter(results, options)))
               /\ UNCHANGED <<idx, calls>>
  /\ UNCHANGED <<nodes, edges, memories, relationships, vectors, memOK, vecOK, op,
                 pre, opCount, mig, tr, obs, store>>

\* the caller takes the result; the next operation may start
Ack(p) ==
  /\ pc[p] = "done"
  /\ pc' = [pc EXCEPT ![p] = "idle"]
  /\ op' = [op EXCEPT ![p] = Idle]
  /\ res' = [res EXCEPT ![p] = NoRes]
  /\ pre' = [pre EXCEPT ![p] = NoPre]
  /\ calls' = [calls EXCEPT ![p] = <<>>]
  /\ fault' = [fault EXCEPT ![p] = "none"]
  /\ idx' = [idx EXCEPT ![p] = 0]
  /\ acc' = [acc EXCEPT ![p] = <<>>]
  /\ UNCHANGED <<nodes, edges, memories, relationships, vectors, lastDone, memOK, vecOK,
                 opCount, faults, mig, tr, obs, store>>

----------------------------------------------------------------------------
(* Specifications of the ContextManager *)

NoMig == [pc |-> "off"]
NoTr == [pc |-> "off"]
NoObs == [reads |-> 0]
NoStore == [pc |-> "off"]

InitCallers ==
  /\ op = [p \in Procs |-> Idle]
  /\ idx = [p \in Procs |-> 0]
  /\ acc = [p \in Procs |-> <<>>]
  /\ res = [p \in Procs |-> NoRes]
  /\ fault = [p \in Procs |-> "none"]
  /\ pre = [p \in Procs |-> NoPre]
  /\ calls = [p \in Procs |-> <<>>]
  /\ lastDone = 0
  /\ memOK = {}
  /\ vecOK = {}
  /\ opCount = 0
  /\ faults = 0

InitCommon ==
  /\ nodes = EmptyMap
  /\ edges = <<>>
  /\ memories = <<>>
  /\ relationships = EmptyMap
  /\ vectors = EmptyMap
  /\ InitCallers
  /\ mig = NoMig
  /\ tr = NoTr
  /\ obs = NoObs
  /\ store = NoStore

\* one caller issuing one operation at a time
Init ==
  /\ InitCommon
  /\ pc = [p \in Procs |-> IF p = 1 THEN "idle" ELSE "off"]

\* two callers issuing operations concurrently
InitConc ==
  /\ InitCommon
  /\ pc = [p \in Procs |-> "idle"]

Next ==
  \E p \in Procs :
    \/ \E e \in Entries : AddContext(p, e)
    \/ AddStoreReturn(p)
    \/ AddUpsertReturn(p)
    \/ AddTrackReturn(p)
    \/ \E i \in Ids : \E partial \in Partials(i) : UpdateContextMetadata(p, i, partial)
    \/ UpdateStoreReturn(p)
    \/ UpdateUpsertReturn(p)
    \/ \E i \in Ids : DeleteContext(p, i)
    \/ DeleteVectorReturn(p)
    \/ DeleteMemoryReturn(p)
    \/ \E options \in QueryOptions : RetrieveContext(p, options)
    \/ RetrieveQueryReturn(p)
    \/ RetrieveRelatedReturn(p)
    \/ Ack(p)

Spec == Init /\ [][Next]_vars

\* the operations of two concurrent callers
NextConc ==
  \E p \in Procs :
    \/ \E e \in ConcEntries : AddContext(p, e)
    \/ AddStoreReturn(p)
    \/ AddUpsertReturn(p)
    \/ AddTrackReturn(p)
    \/ UpdateContextMetadata(p, "a", [type |-> "code"])
    \/ UpdateStoreReturn(p)
    \/ UpdateUpsertReturn(p)
    \/ \E i \in Ids : DeleteContext(p, i)
    \/ DeleteVectorReturn(p)
    \/ DeleteMemoryReturn(p)
    \/ RetrieveContext(p, Options(EmptyMap, 0, TRUE, None, None))
    \/ RetrieveQueryReturn(p)
    \/ RetrieveRelatedReturn(p)
    \/ Ack(p)

SpecConc == InitConc /\ [][NextConc]_vars

----------------------------------------------------------------------------
(* DefaultMigrationTransformer *)

Undefined == "undefined"

\* JavaScript === on numbers: NaN equals nothing
StrictEq(x, y) == x = y /\ x # NaN

\* metadata.field, undefined when the field is absent
Field(metadata, k) == IF k \in DOMAIN metadata THEN metadata[k] ELSE Undefined

\* metadata.field || dflt
FieldOr(metadata, k, dflt) == IF k \in DOMAIN metadata THEN metadata[k] ELSE dflt

\* memoryToVector once the values are known
memoryToVector(memory, values) ==
  [id |-> memory.id, values |-> values,
   metadata |-> [content |-> memory.content,
                 type |-> memory.metadata.type,
                 timestamp |-> memory.metadata.timestamp,
                 tags |-> FieldOr(memory.metadata, "tags", <<>>),
                 source |-> Field(memory.metadata, "source"),
                 relationships |-> FieldOr(memory.metadata, "relationships", <<>>),
                 attributes |-> FieldOr(memory.metadata, "attributes", EmptyMap)]]

validate(memory, vector) ==
  /\ vector.id = memory.id
  /\ vector.metadata.content = memory.content
  /\ vector.metadata.type = memory.metadata.type
  /\ StrictEq(vector.metadata.timestamp, memory.metadata.timestamp)
  /\ vector.values = EMBEDDING_DIMENSION
  /\ vector.metadata.tags = FieldOr(memory.metadata, "tags", <<>>)
  /\ vector.metadata.source = Field(memory.metadata, "source")
  /\ vector.metadata.relationships = FieldOr(memory.metadata, "relationships", <<>>)
  /\ vector.metadata.attributes = FieldOr(memory.metadata, "attributes", EmptyMap)

\* faulty variant of vectorToMemory: the tags of the record are not copied
vectorToMemoryWithoutTags(vector) ==
  [id |-> vector.id, content |-> vector.metadata.content, vector |-> vector.values,
   metadata |->
     MergeMetadata([type |-> vector.metadata.type,
                    timestamp |-> vector.metadata.timestamp,
                    tags |-> <<>>,
                    relationships |-> FieldOr(vector.metadata, "relationships", <<>>),
                    attributes |-> FieldOr(vector.metadata, "attributes", EmptyMap)],
                   IF vector.metadata.source = Undefined THEN EmptyMap
                   ELSE [source |-> vector.metadata.source])]

\* vectorToMemory of a record that has metadata; a field whose value is
\* undefined is left out of the record
vectorToMemory(vector) ==
  [id |-> vector.id, content |-> vector.metadata.content, vector |-> vector.values,
   metadata |->
     MergeMetadata([type |-> vector.metadata.type,
                    timestamp |-> vector.metadata.timestamp,
                    tags |-> FieldOr(vector.metadata, "tags", <<>>),
                    relationships |-> FieldOr(vector.metadata, "relationships", <<>>),
                    attributes |-> FieldOr(vector.metadata, "attributes", EmptyMap)],
                   IF vector.metadata.source = Undefined THEN EmptyMap
                   ELSE [source |-> vector.metadata.source])]

\* the entries handed to the transformer: each optional field of the metadata
\* absent, empty or filled
TransformerEntries ==
  {[id |-> "a", content |-> "c1", vector |-> v,
    metadata |-> MergeMetadata(MergeMetadata(MergeMetadata(MergeMetadata(
                   [type |-> "note", timestamp |-> ts], tags), source), rels), attrs)] :
     v \in {NoVector, EMBEDDING_DIMENSION, WrongDimension},
     ts \in {1000, NaN},
     tags \in {EmptyMap, [tags |-> <<>>], [tags |-> <<"t1">>]},
     source \in {EmptyMap, [source |-> "user"]},
     rels \in {EmptyMap, [relationships |-> <<>>], [relationships |-> OneRel("a")]},
     attrs \in {EmptyMap, [attributes |-> EmptyMap], [attributes |-> [k |-> 1]]}}

NoRecord == [id |-> "none"]

\* memoryToVector(memory), the embedding generated when memory has no vector
TransformToVector ==
  /\ tr.pc = "start"
  /\ IF tr.memory.vector = NoVector
     THEN \E o \in {"ok", "fail"} :
            tr' = IF o = "ok"
                  THEN [tr EXCEPT !.pc = "vector",
                                  !.vector = memoryToVector(tr.memory, EMBEDDING_DIMENSION)]
                  ELSE [tr EXCEPT !.pc = "raised"]
     ELSE tr' = [tr EXCEPT !.pc = "vector",
                           !.vector = memoryToVector(tr.memory, tr.memory.vector)]
  /\ UNCHANGED <<ctxVars, mig, obs, store>>

\* validate(memory, vector)
TransformValidate ==
  /\ tr.pc = "vector"
  /\ tr' = [tr EXCEPT !.pc = "validated", !.valid = validate(tr.memory, tr.vector)]
  /\ UNCHANGED <<ctxVars, mig, obs, store>>

\* vectorToMemory(vector)
TransformToMemory ==
  /\ tr.pc = "validated"
  /\ tr' = [tr EXCEPT !.pc = "done", !.entry = vectorToMemory(tr.vector)]
  /\ UNCHANGED <<ctxVars, mig, obs, store>>

\* one entry handed to a transformer
InitTransform ==
  /\ nodes = EmptyMap
  /\ edges = <<>>
  /\ memories = <<>>
  /\ relationships = EmptyMap
  /\ vectors = EmptyMap
  /\ InitCallers
  /\ pc = [p \in Procs |-> "off"]
  /\ mig = NoMig
  /\ obs = NoObs
  /\ store = NoStore
  /\ tr \in {[pc |-> "start", memory |-> e, vector |-> NoRecord, entry |-> NoRecord,
               valid |-> FALSE] : e \in TransformerEntries}

NextTransform ==
  \/ TransformToVector
  \/ TransformValidate
  \/ TransformToMemory

SpecTransform == InitTransform /\ [][NextTransform]_vars

----------------------------------------------------------------------------
(* MigrationService *)

MaxEntries == 5      \* entries passed to one migrate call
DEFAULT_BATCH_SIZE == 50

\* batchSize 0 stands for an absent batchSize
BatchSizes == {0, 1, 2}

MigrationOptions ==
  [batchSize : BatchSizes, validateOnly : BOOLEAN, rollbackOnError : BOOLEAN]

\* "ok" carries its vector, "embed" has none yet, "bad" carries a vector of
\* the wrong dimension
Kinds == {"ok", "embed", "bad"}

MigId(i) == "m" \o ToString(i)

MigEntry(i, kind) ==
  Entry(MigId(i), "c1",
        CASE kind = "ok" -> EMBEDDING_DIMENSION
          [] kind = "embed" -> NoVector
          [] kind = "bad" -> WrongDimension,
        "note", 1000, <<>>)

MigInputs(maxLen) ==
  UNION {{[i \in 1..n |-> MigEntry(i, ks[i])] : ks \in [1..n -> Kinds]} : n \in 0..maxLen}

\* a record already in the backend under the id of the first entry
OldRecord == [id |-> MigId(1), values |-> EMBEDDING_DIMENSION,
              metadata |-> [content |-> "old"]]

initializeProgress(total) ==
  [total |-> total, processed |-> 0, failed |-> 0, endTime |-> FALSE]

\* faulty variant of takeSnapshot: progress snapshots are not recorded
takeTerminalSnapshot(m, state) ==
  IF state = "in_progress" THEN m
  ELSE [m EXCEPT !.snapshots = Append(@, [state |-> state, progress |-> m.progress,
                                           errors |-> m.call])]

\* takeSnapshot: progress is copied field by field, so the snapshot shares the
\* errors array of its call
takeSnapshot(m, state) ==
  [m EXCEPT !.snapshots = Append(@, [state |-> state, progress |-> m.progress,
                                      errors |-> m.call])]

EffectiveBatchSize(options) ==
  IF options.batchSize # 0 THEN options.batchSize ELSE DEFAULT_BATCH_SIZE

\* Array.prototype.slice: an index below 0 counts from the end of the array,
\* and the index is kept within 0..n
SliceIndex(n, x) ==
  IF x < 0 THEN (IF n + x < 0 THEN 0 ELSE n + x)
  ELSE IF x < n THEN x ELSE n

\* service.ts 125-126: memories.slice(i, i + batchSize), where the slice starts
BatchStart(m) == SliceIndex(Len(m.entries), m.i)

\* faulty variant of BatchEnd: a batch runs on to the end of the input
BatchEndOfInput(m) == Len(m.entries)

\* service.ts 125-126: memories.slice(i, i + batchSize), where the slice ends
BatchEnd(m) == SliceIndex(Len(m.entries), m.i + EffectiveBatchSize(m.options))

MigReturn(success, rollbackRequired) ==
  [kind |-> "return", success |-> success, rollbackRequired |-> rollbackRequired]

MigRaise == [kind |-> "raise", success |-> FALSE, rollbackRequired |-> FALSE]

\* service.ts 138-145
Complete(m) ==
  LET m1 == takeSnapshot([m EXCEPT !.progress.endTime = TRUE], "completed")
  IN [m1 EXCEPT !.pc = "done",
                !.result = MigReturn(m.progress.failed = 0, FALSE)]

\* the for loop of migrate at offset i: the next batch, or completion
LoopAt(m, i) ==
  IF i < Len(m.entries)
  THEN [m EXCEPT !.pc = "entry", !.i = i, !.j = 1, !.batch = <<>>]
  ELSE Complete([m EXCEPT !.i = i])

\* faulty variant of AbortResult: rollbackRequired only when a rollback ran
AbortResultIfRolledBack(m) ==
  [m EXCEPT !.pc = "done",
            !.result = MigReturn(FALSE, m.options.rollbackOnError /\ m.migrated # <<>>)]

\* service.ts 155-159
AbortResult(m) ==
  [m EXCEPT !.pc = "done", !.result = MigReturn(FALSE, m.options.rollbackOnError)]

\* faulty variant of RollbackTargets: every entry of the call is rolled back
RollbackTargetsWholeInput(m) == [k \in 1..Len(m.entries) |-> [id |-> m.entries[k].id]]

\* service.ts 119, 132, 150: migratedVectors, the records rollback is called with
RollbackTargets(m) == m.migrated

\* faulty variant of Abort: the migrated vectors are never rolled back
AbortWithoutRollback(m) ==
  AbortResult(takeSnapshot([m EXCEPT !.progress.endTime = TRUE, !.aborted = TRUE], "failed"))

\* service.ts 146-153: the catch block of migrate
Abort(m) ==
  LET m1 == takeSnapshot([m EXCEPT !.progress.endTime = TRUE, !.aborted = TRUE], "failed")
  IN IF m.options.rollbackOnError /\ RollbackTargets(m) # <<>>
     THEN [m1 EXCEPT !.pc = "rollback", !.r = 1]
     ELSE AbortResult(m1)

\* faulty variant of AfterBatch: the batch is upserted even with validateOnly
AfterBatchAlwaysUpsert(m) == [m EXCEPT !.pc = "upsert"]

\* service.ts 129-136: the batch has been processed
AfterBatch(m) ==
  IF ~m.options.validateOnly
  THEN [m EXCEPT !.pc = "upsert"]
  ELSE LoopAt(takeSnapshot(m, "in_progress"), m.i + EffectiveBatchSize(m.options))

\* faulty variant of EntrySucceeded: the record is counted but not collected
EntrySucceededUncollected(m, vector) ==
  LET m1 == [m EXCEPT !.progress.processed = @ + 1]
  IN IF BatchStart(m) + m.j < BatchEnd(m) THEN [m1 EXCEPT !.j = @ + 1] ELSE AfterBatch(m1)

\* service.ts 78-82
EntrySucceeded(m, vector) ==
  LET m1 == [m EXCEPT !.progress.processed = @ + 1,
                      !.batch = IF m.options.validateOnly THEN @ ELSE Append(@, vector)]
  IN IF BatchStart(m) + m.j < BatchEnd(m) THEN [m1 EXCEPT !.j = @ + 1] ELSE AfterBatch(m1)

\* faulty variant of Rethrows: processBatch goes on after a failed entry
RethrowsNever(options) == FALSE

\* service.ts 90-92: if (options.rollbackOnError) throw error
Rethrows(options) == options.rollbackOnError

\* faulty variant of EntryFailed: the failed entry is recorded but not counted
EntryFailedUncounted(m, memory, msg) ==
  LET m1 == [m EXCEPT !.errors[m.call] = Append(@, [id |-> memory.id, error |-> msg])]
  IN IF m.options.rollbackOnError THEN Abort(m1)
     ELSE IF BatchStart(m) + m.j < BatchEnd(m) THEN [m1 EXCEPT !.j = @ + 1] ELSE AfterBatch(m1)

\* service.ts 83-93
EntryFailed(m, memory, msg) ==
  LET m1 == [m EXCEPT !.progress.failed = @ + 1,
                      !.errors[m.call] = Append(@, [id |-> memory.id, error |-> msg])]
  IN IF Rethrows(m.options) THEN Abort(m1)
     ELSE IF BatchStart(m) + m.j < BatchEnd(m) THEN [m1 EXCEPT !.j = @ + 1] ELSE AfterBatch(m1)

IdleMig(maxLen, callsLeft, snaps, errs, call) ==
  [pc |-> "idle", call |-> call, entries |-> <<>>,
   options |-> [batchSize |-> 0, validateOnly |-> FALSE, rollbackOnError |-> FALSE],
   i |-> 0, j |-> 0, r |-> 0, batch |-> <<>>, migrated |-> <<>>,
   progress |-> initializeProgress(0), errors |-> errs, snapshots |-> snaps,
   result |-> [kind |-> "none"], aborted |-> FALSE, before |-> EmptyMap,
   upsertFailed |-> FALSE, deleteFailed |-> FALSE, entryFailed |-> FALSE,
   vcalls |-> <<>>, stored |-> 0, seen |-> <<>>, upserts |-> <<>>, deletes |-> <<>>,
   maxLen |-> maxLen, callsLeft |-> callsLeft]

Migrate(entries, options) ==
  /\ mig.pc = "idle"
  /\ mig.callsLeft > 0
  /\ Len(entries) <= mig.maxLen
  /\ LET m0 == IdleMig(mig.maxLen, mig.callsLeft - 1, mig.snapshots,
                       MapSet(mig.errors, mig.call + 1, <<>>), mig.call + 1)
         m1 == [m0 EXCEPT !.entries = entries, !.options = options,
                          !.progress = initializeProgress(Len(entries)),
                          !.before = vectors]
     IN mig' = LoopAt(takeSnapshot(m1, "in_progress"), 0)
  /\ UNCHANGED <<ctxVars, tr, obs, store>>

\* processBatch, one entry: transform, validate, count
\* history: the entry about to be transformed, with the snapshots taken and
\* the backend calls answered so far
Seen(m) ==
  [m EXCEPT !.seen = Append(@, [k |-> BatchStart(m) + m.j, snaps |-> Len(m.snapshots),
                                calls |-> Len(m.vcalls)])]

ProcessEntry ==
  /\ mig.pc = "entry"
  /\ BatchStart(mig) < BatchEnd(mig)
  /\ LET memory == mig.entries[BatchStart(mig) + mig.j] IN
     IF memory.vector = NoVector
     THEN \E o \in Outcomes \ {"raise"} :
            /\ faults' = IF o = "ok" THEN faults ELSE faults + 1
            /\ IF o = "ok"
               THEN LET vector == memoryToVector(memory, EMBEDDING_DIMENSION)
                    IN mig' = IF validate(memory, vector)
                              THEN EntrySucceeded(Seen(mig), vector)
                              ELSE EntryFailed([Seen(mig) EXCEPT !.entryFailed = TRUE], memory,
                                     "Validation failed: Data integrity check failed")
               ELSE mig' = EntryFailed([Seen(mig) EXCEPT !.entryFailed = TRUE], memory,
                                       "Failed to generate embedding: " \o BackendDown)
     ELSE /\ faults' = faults
          /\ LET vector == memoryToVector(memory, memory.vector)
             IN mig' = IF validate(memory, vector)
                       THEN EntrySucceeded(Seen(mig), vector)
                       ELSE EntryFailed([Seen(mig) EXCEPT !.entryFailed = TRUE], memory,
                              "Validation failed: Data integrity check failed")
  /\ UNCHANGED <<nodes, edges, memories, relationships, vectors, pc, op, idx, acc,
                 res, fault, pre, calls, lastDone, memOK, vecOK, opCount, tr, obs, store>>

\* service.ts 131-135: the answer of upsertVectors is not looked at
MigUpsertReturn ==
  /\ mig.pc = "upsert"
  /\ \E o \in Outcomes :
       /\ faults' = IF o = "ok" THEN faults ELSE faults + 1
       /\ vectors' = IF o = "ok" THEN UpsertVectors(vectors, mig.batch) ELSE vectors
       /\ LET m1 == [mig EXCEPT !.upsertFailed = @ \/ o # "ok"
                                                   \/ ~UpsertResponse(mig.batch).success,
                                !.vcalls = Append(@, "upsertVectors"),
                                !.upserts = Append(@, [at |-> mig.i, records |-> mig.batch]),
                                !.stored = IF o = "ok" /\ UpsertResponse(mig.batch).success
                                           THEN @ + Len(mig.batch) ELSE @]
          IN mig' = IF o = "raise" THEN Abort(m1)
                    ELSE LoopAt(takeSnapshot([m1 EXCEPT !.migrated = @ \o mig.batch],
                                             "in_progress"),
                                mig.i + EffectiveBatchSize(mig.options))
  /\ UNCHANGED <<nodes, edges, memories, relationships, pc, op, idx, acc,
                 res, fault, pre, calls, lastDone, memOK, vecOK, opCount, tr, obs, store>>

\* rollback, one deleteVectors call; its answer is not looked at
RollbackReturn ==
  /\ mig.pc = "rollback"
  /\ \E o \in Outcomes :
       /\ faults' = IF o = "ok" THEN faults ELSE faults + 1
       /\ vectors' = IF o = "ok" THEN DeleteVectors(vectors, RollbackTargets(mig)[mig.r].id)
                     ELSE vectors
       /\ LET m1 == [mig EXCEPT !.deleteFailed = @ \/ o # "ok",
                                !.vcalls = Append(@, "deleteVectors"),
                                !.deletes = Append(@, RollbackTargets(mig)[mig.r].id)]
          IN mig' = IF o = "raise" THEN [m1 EXCEPT !.pc = "done", !.result = MigRaise]
                    ELSE IF mig.r < Len(RollbackTargets(mig)) THEN [m1 EXCEPT !.r = @ + 1]
                    ELSE AbortResult(takeSnapshot(m1, "rolled_back"))
  /\ UNCHANGED <<nodes, edges, memories, relationships, pc, op, idx, acc,
                 res, fault, pre, calls, lastDone, memOK, vecOK, opCount, tr, obs, store>>

\* the caller takes the result of migrate
MigAck ==
  /\ mig.pc = "done"
  /\ mig' = IdleMig(mig.maxLen, mig.callsLeft, mig.snapshots, mig.errors, mig.call)
  /\ UNCHANGED <<ctxVars, tr, obs, store>>

\* one migrate call on a fresh service, the backend empty or holding a record
InitMig ==
  /\ nodes = EmptyMap
  /\ edges = <<>>
  /\ memories = <<>>
  /\ relationships = EmptyMap
  /\ vectors \in {EmptyMap, MapSet(EmptyMap, OldRecord.id, OldRecord)}
  /\ InitCallers
  /\ pc = [p \in Procs |-> "off"]
  /\ mig = IdleMig(MaxEntries, 1, <<>>, EmptyMap, 0)
  /\ tr = NoTr
  /\ obs = NoObs
  /\ store = NoStore

NextMig ==
  \/ /\ mig.pc = "idle"
     /\ mig.callsLeft > 0
     /\ \E entries \in MigInputs(mig.maxLen) : \E options \in MigrationOptions :
          Migrate(entries, options)
  \/ ProcessEntry
  \/ MigUpsertReturn
  \/ RollbackReturn
  \/ MigAck

SpecMig == InitMig /\ [][NextMig]_vars

----------------------------------------------------------------------------
(* MigrationService: several migrate calls, and a caller reading the history *)

MaxCalls == 2        \* migrate calls on one service

\* a snapshot object the caller has made itself
ForeignSnapshot == [state |-> "foreign", progress |-> initializeProgress(0), errors |-> 0]

Modifications == {"push", "pop", "set"}

\* the array after the caller has pushed to it, popped from it or assigned
\* its first element
Modified(list, how) ==
  CASE how = "push" -> Append(list, ForeignSnapshot)
    [] how = "pop" -> IF list = <<>> THEN list ELSE SubSeq(list, 1, Len(list) - 1)
    [] how = "set" -> IF list = <<>> THEN list ELSE [list EXCEPT ![1] = ForeignSnapshot]

\* faulty variant of getSnapshots: the array of the service itself is returned
getSnapshotsAliased == "snapshots"

\* service.ts 166-168: the array getSnapshots returns is a new one, [...this.snapshots]
getSnapshots == "copy"

\* service.ts 173-175: this.snapshots[this.snapshots.length - 1]
getLatestSnapshot(m) ==
  IF m.snapshots = <<>> THEN Undefined ELSE m.snapshots[Len(m.snapshots)]

\* the caller calls getSnapshots and getLatestSnapshot between two migrate calls
ReadSnapshots ==
  /\ mig.pc = "idle"
  /\ obs' = [reads |-> 1, array |-> getSnapshots, list |-> mig.snapshots,
             latest |-> getLatestSnapshot(mig), modified |-> FALSE]
  /\ UNCHANGED <<ctxVars, mig, tr, store>>

\* the caller modifies the array it got from getSnapshots
ModifyReturned ==
  /\ obs.reads > 0
  /\ ~obs.modified
  /\ mig.pc = "idle"
  /\ \E how \in Modifications :
       IF obs.array = "copy"
       THEN /\ obs' = [obs EXCEPT !.list = Modified(@, how), !.modified = TRUE]
            /\ mig' = mig
       ELSE /\ obs' = [obs EXCEPT !.modified = TRUE]
            /\ mig' = [mig EXCEPT !.snapshots = Modified(@, how)]
  /\ UNCHANGED <<ctxVars, tr, store>>

\* a fresh service, the backend empty or holding a record
InitMigCalls ==
  /\ nodes = EmptyMap
  /\ edges = <<>>
  /\ memories = <<>>
  /\ relationships = EmptyMap
  /\ vectors \in {EmptyMap, MapSet(EmptyMap, OldRecord.id, OldRecord)}
  /\ InitCallers
  /\ pc = [p \in Procs |-> "off"]
  /\ mig = IdleMig(MaxEntries, MaxCalls, <<>>, EmptyMap, 0)
  /\ tr = NoTr
  /\ obs = NoObs
  /\ store = NoStore

\* the entries and options of these calls: batches of one entry, entries that
\* carry a vector of the right or of the wrong dimension
CallInputs ==
  {<<>>, <<MigEntry(1, "ok")>>, <<MigEntry(1, "bad")>>, <<MigEntry(2, "ok")>>,
   <<MigEntry(1, "ok"), MigEntry(2, "bad")>>}

CallOptions ==
  {[batchSize |-> 1, validateOnly |-> FALSE, rollbackOnError |-> r] : r \in BOOLEAN}

NextMigCalls ==
  \/ /\ mig.pc = "idle"
     /\ mig.callsLeft > 0
     /\ \E entries \in CallInputs : \E options \in CallOptions : Migrate(entries, options)
  \/ ProcessEntry
  \/ MigUpsertReturn
  \/ RollbackReturn
  \/ MigAck
  \/ ReadSnapshots
  \/ ModifyReturned

SpecMigCalls == InitMigCalls /\ [][NextMigCalls]_vars

----------------------------------------------------------------------------
(* MigrationService: one call with any batchSize *)

MaxSnapshots == 6    \* snapshots up to which a call is followed

\* the batchSize values of these calls: negative, absent, positive
AnyBatchSizes == {-1, 0, 1}

AnySizeOptions ==
  [batchSize : AnyBatchSizes, validateOnly : BOOLEAN, rollbackOnError : BOOLEAN]

\* processBatch over an empty slice: the for...of loop has nothing to do
ProcessEmptyBatch ==
  /\ mig.pc = "entry"
  /\ BatchStart(mig) >= BatchEnd(mig)
  /\ Len(mig.snapshots) < MaxSnapshots
  /\ mig' = AfterBatch(mig)
  /\ UNCHANGED <<ctxVars, tr, obs, store>>

InitMigAnySize ==
  /\ nodes = EmptyMap
  /\ edges = <<>>
  /\ memories = <<>>
  /\ relationships = EmptyMap
  /\ vectors = EmptyMap
  /\ InitCallers
  /\ pc = [p \in Procs |-> "off"]
  /\ mig = IdleMig(MaxEntries, 1, <<>>, EmptyMap, 0)
  /\ tr = NoTr
  /\ obs = NoObs
  /\ store = NoStore

NextMigAnySize ==
  \/ /\ mig.pc = "idle"
     /\ mig.callsLeft > 0
     /\ \E entries \in CallInputs : \E options \in AnySizeOptions : Migrate(entries, options)
  \/ ProcessEntry
  \/ ProcessEmptyBatch
  \/ MigUpsertReturn
  \/ RollbackReturn
  \/ MigAck

SpecMigAnySize == InitMigAnySize /\ [][NextMigAnySize]_vars

----------------------------------------------------------------------------
(* PineconeStore, the variant with the isDisposed flag *)

MaxInFlight == 2     \* probes of testConnection calls and timer ticks in flight

NoError == "null"

\* the fields of a store that was constructed and never initialized, with the
\* history kept about it: how the probe that completed last ended, whether
\* dispose was called since initialize was last called, whether a tick has
\* probed the index since then, and the last event
NewStore(config) ==
  [pc |-> "idle", config |-> config, isConnected |-> FALSE, isDisposed |-> FALSE,
   lastError |-> NoError, index |-> FALSE, monitoringInterval |-> FALSE,
   inFlight |-> 0, lastProbe |-> "none", disposedSince |-> FALSE,
   tickProbed |-> FALSE, last |-> "none"]

getConnectionStatus(s) ==
  [isConnected |-> s.isConnected /\ ~s.isDisposed, lastError |-> s.lastError]

\* the body of dispose, which has no await in it
Disposed(s) ==
  [s EXCEPT !.isDisposed = TRUE, !.monitoringInterval = FALSE, !.isConnected = FALSE,
            !.lastError = NoError, !.index = FALSE]

\* testConnection after describeIndexStats has resolved
ProbeSucceeded(s) ==
  [s EXCEPT !.isConnected = TRUE, !.lastError = NoError,
            !.lastProbe = "ok", !.last = "probe_succeeded"]

\* the catch block of testConnection
ProbeFailed(s, msg) ==
  [s EXCEPT !.isConnected = FALSE, !.lastError = msg,
            !.lastProbe = "fail", !.last = "probe_failed"]

\* testConnection up to its await: it fails at once on a store without index
\* or disposed, and otherwise describeIndexStats is in flight
ProbeStarted(s) ==
  IF ~s.index \/ s.isDisposed
  THEN ProbeFailed(s, "Store not initialized or disposed")
  ELSE [s EXCEPT !.inFlight = @ + 1, !.last = "probe_started"]

\* initialize up to the await of dispose()
Initialize ==
  /\ store.pc = "idle"
  /\ store' = [Disposed(store) EXCEPT !.pc = "reset", !.disposedSince = FALSE,
                                      !.tickProbed = FALSE, !.last = "initialize"]
  /\ UNCHANGED <<ctxVars, mig, tr, obs>>

\* initialize from the reset of isDisposed to the await of testConnection()
InitializeReset ==
  /\ store.pc = "reset"
  /\ store' = IF store.config = "missing"
              THEN [store EXCEPT !.pc = "idle", !.isDisposed = FALSE,
                                 !.isConnected = FALSE,
                                 !.lastError = "Missing required configuration",
                                 !.last = "initialize_failed"]
              ELSE [store EXCEPT !.pc = "probe", !.isDisposed = FALSE, !.index = TRUE,
                                 !.last = "probe_started"]
  /\ UNCHANGED <<ctxVars, mig, tr, obs>>

\* the probe of initialize completes; on success the monitoring timer starts
InitializeProbeReturn ==
  /\ store.pc = "probe"
  /\ \E o \in {"ok", "fail"} :
       store' = IF o = "ok"
                THEN [ProbeSucceeded(store) EXCEPT !.pc = "idle",
                                                   !.monitoringInterval = TRUE]
                ELSE [ProbeFailed(store, "Connection test failed") EXCEPT !.pc = "idle"]
  /\ UNCHANGED <<ctxVars, mig, tr, obs>>

\* a caller calls testConnection
TestConnection ==
  /\ store.inFlight < MaxInFlight
  /\ store' = ProbeStarted(store)
  /\ UNCHANGED <<ctxVars, mig, tr, obs>>

\* the monitoring timer fires
Tick ==
  /\ store.monitoringInterval
  /\ store.inFlight < MaxInFlight
  /\ store' = IF store.isDisposed
              THEN [store EXCEPT !.monitoringInterval = FALSE, !.last = "tick"]
              ELSE [ProbeStarted(store) EXCEPT
                      !.tickProbed = @ \/ (store.index /\ store.disposedSince)]
  /\ UNCHANGED <<ctxVars, mig, tr, obs>>

\* describeIndexStats of a testConnection call or of a tick resolves or rejects
ProbeReturn ==
  /\ store.inFlight > 0
  /\ \E o \in {"ok", "fail"} :
       store' = [(IF o = "ok" THEN ProbeSucceeded(store)
                  ELSE ProbeFailed(store, "Connection test failed"))
                 EXCEPT !.inFlight = @ - 1]
  /\ UNCHANGED <<ctxVars, mig, tr, obs>>

\* a caller calls dispose
Dispose ==
  /\ store' = [Disposed(store) EXCEPT !.disposedSince = TRUE, !.last = "dispose"]
  /\ UNCHANGED <<ctxVars, mig, tr, obs>>

InitStore ==
  /\ nodes = EmptyMap
  /\ edges = <<>>
  /\ memories = <<>>
  /\ relationships = EmptyMap
  /\ vectors = EmptyMap
  /\ InitCallers
  /\ pc = [p \in Procs |-> "off"]
  /\ mig = NoMig
  /\ tr = NoTr
  /\ obs = NoObs
  /\ store \in {NewStore(config) : config \in {"ok", "missing"}}

NextStore ==
  \/ Initialize
  \/ InitializeReset
  \/ InitializeProbeReturn
  \/ TestConnection
  \/ Tick
  \/ ProbeReturn
  \/ Dispose

SpecStore == InitStore /\ [][NextStore]_vars

----------------------------------------------------------------------------
(* Properties of the ContextManager *)

AddOrUpdate == {"addContext", "updateContextMetadata"}

\* p has completed an operation of the given name
Done(p, name) == pc[p] = "done" /\ op[p].name = name

\* C1: every node held in the graph is an entry version whose storeMemory
\* reported success and, when the entry carries a vector, whose upsertVectors
\* reported success.
C1_GraphHoldsAcceptedEntries ==
  \A id \in DOMAIN nodes :
    /\ nodes[id] \in memOK
    /\ nodes[id].vector # NoVector => nodes[id] \in vecOK

\* a write of a new version was rejected by a backend while the graph holds
\* an earlier version of the same id
C1_Witness ==
  \E p \in Procs :
    /\ pc[p] = "done"
    /\ op[p].name \in AddOrUpdate
    /\ fault[p] \in {"storage", "vector"}
    /\ Has(nodes, op[p].entry.id)
    /\ nodes[op[p].entry.id] # op[p].entry

\* C2: when a backend sub-operation of addContext fails (storeMemory,
\* upsertVectors or trackRelationship, by success:false or by raising), the
\* nodes and edges of the graph are what they were before the call.
C2_GraphUntouchedOnFailure ==
  \A p \in Procs :
    (Done(p, "addContext") /\ fault[p] # "none") =>
      /\ nodes = pre[p].nodes
      /\ edges = pre[p].edges

\* C6: deleteContext(id) leaves the graph alone until deleteVectors and then
\* deleteMemories have reported success; then exactly the node id and the
\* edges with source or target id are gone; when either deletion fails the
\* graph is unchanged and success:false is returned.
C6_DeleteTouchesGraphLast ==
  \A p \in Procs :
    op[p].name = "deleteContext" =>
      /\ pc[p] \in {"del_vector", "del_memory"} =>
           nodes = pre[p].nodes /\ edges = pre[p].edges
      /\ (pc[p] = "done" /\ fault[p] = "none") =>
           /\ res[p].kind = "return" /\ res[p].success
           /\ calls[p] = <<"deleteVectors", "deleteMemories">>
           /\ DOMAIN nodes = DOMAIN pre[p].nodes \ {op[p].id}
           /\ \A x \in DOMAIN nodes : nodes[x] = pre[p].nodes[x]
           /\ edges = SelectSeq(pre[p].edges,
                                LAMBDA e : e.source # op[p].id /\ e.target # op[p].id)
      /\ (pc[p] = "done" /\ fault[p] # "none") =>
           /\ res[p].kind = "return" /\ ~res[p].success
           /\ nodes = pre[p].nodes /\ edges = pre[p].edges

\* a successful deleteContext(id) that removed a node and an edge pointing at
\* id, and kept another node and an edge that does not mention id
C6_Witness ==
  \E p \in Procs :
    /\ Done(p, "deleteContext") /\ res[p].success
    /\ Has(pre[p].nodes, op[p].id)
    /\ nodes # EmptyMap
    /\ \E i \in 1..Len(pre[p].edges) : pre[p].edges[i].target = op[p].id
    /\ edges # <<>>

\* the relationship lookup of the memory store, as a set of {id, type}
Related(id) ==
  LET r == GetRelatedMemories(relationships, id, "") IN {r[i] : i \in 1..Len(r)}

C8_AlwaysReturnsResult ==
  \A p \in Procs :
    pc[p] = "done" => res[p].kind = "return" /\ res[p].success \in BOOLEAN

\* addContext has completed after a backend call raised
C8_Witness ==
  \E p \in Procs :
    /\ Done(p, "addContext")
    /\ res[p].error = "Failed to add context: " \o BackendDown

----------------------------------------------------------------------------
(* Properties of concurrent addContext calls *)

\* the memory store holds e as storeMemory wrote it, possibly followed by the
\* relationships trackRelationship pushed
MemoryHolds(e) ==
  LET i == SeqIndex(memories, e.id) IN
  /\ i # 0
  /\ memories[i].content = e.content
  /\ memories[i].vector = e.vector
  /\ memories[i].metadata.type = e.metadata.type
  /\ memories[i].metadata.timestamp = e.metadata.timestamp
  /\ Len(memories[i].metadata.relationships) >= Len(e.metadata.relationships)
  /\ SubSeq(memories[i].metadata.relationships, 1, Len(e.metadata.relationships))
       = e.metadata.relationships

\* the vector store holds the record upserted for e
VectorHolds(e) ==
  /\ Has(vectors, e.id)
  /\ vectors[e.id].values = e.vector
  /\ vectors[e.id].metadata.content = e.content
  /\ vectors[e.id].metadata.type = e.metadata.type
  /\ vectors[e.id].metadata.timestamp = e.metadata.timestamp
  /\ vectors[e.id].metadata.relationships = e.metadata.relationships

NodeHolds(e) == Has(nodes, e.id) /\ nodes[e.id] = e

\* both callers have completed a successful addContext of an entry with a
\* vector, on the same id
BothAddsDone ==
  /\ \A p \in Procs : /\ Done(p, "addContext")
                      /\ fault[p] = "none"
                      /\ res[p].success
                      /\ op[p].entry.vector # NoVector
  /\ op[1].entry.id = op[2].entry.id

----------------------------------------------------------------------------
(* Properties of the MigrationService *)

MigReturned == mig.pc = "done" /\ mig.result.kind = "return"

LastSnapshot == mig.snapshots[Len(mig.snapshots)]

C4_EveryEntryCounted ==
  (MigReturned /\ EffectiveBatchSize(mig.options) >= 1) =>
    /\ mig.progress.total = Len(mig.entries)
    /\ mig.progress.processed + mig.progress.failed = Len(mig.entries)

\* C4 amended: when migrate over N entries returns, progress.total = N and
\* progress.processed + progress.failed <= N, with equality when the call
\* ran to completion instead of aborting.
C4_EveryEntryCountedUnlessAborted ==
  (MigReturned /\ EffectiveBatchSize(mig.options) >= 1) =>
    /\ mig.progress.total = Len(mig.entries)
    /\ mig.progress.processed + mig.progress.failed <= Len(mig.entries)
    /\ ~mig.aborted =>
         mig.progress.processed + mig.progress.failed = Len(mig.entries)

\* a call over several batches ran to completion with entries of both fates
C4_Witness ==
  /\ MigReturned /\ ~mig.aborted
  /\ mig.options.batchSize = 2
  /\ Len(mig.entries) >= 3
  /\ mig.progress.failed >= 1
  /\ mig.progress.processed >= 1

\* C9: migrate completes by returning a {success, progress, rollbackRequired}
\* result whatever the transformer and the vector backend do, and never
\* raises to its caller.
C9_MigrateAlwaysReturns ==
  mig.pc = "done" => mig.result.kind = "return"

\* C10: when the vector backend did not accept a batch upsert during migrate,
\* migrate returns success false with progress.failed >= 1 and at least one
\* entry in progress.errors.
C10_UpsertFailureReported ==
  (MigReturned /\ mig.upsertFailed) =>
    /\ ~mig.result.success
    /\ mig.progress.failed >= 1
    /\ mig.errors[mig.call] # <<>>

\* C11: with validateOnly, migrate issues no upsertVectors and no
\* deleteVectors call, and the contents of the vector backend stay what they
\* were before the call, whatever the entries and the other options.
C11_ValidateOnlyLeavesBackend ==
  (mig.pc # "idle" /\ mig.options.validateOnly) =>
    /\ mig.pc \notin {"upsert", "rollback"}
    /\ mig.vcalls = <<>>
    /\ vectors = mig.before

\* a validateOnly call with rollbackOnError aborted on a failing entry after
\* an earlier batch had been validated, the backend holding a record
C11_Witness ==
  /\ MigReturned /\ mig.options.validateOnly /\ mig.options.rollbackOnError
  /\ mig.aborted /\ mig.entryFailed
  /\ mig.progress.processed >= 1
  /\ mig.i >= 1
  /\ vectors # EmptyMap

\* the states of the snapshots the running migrate call has appended
RECURSIVE StatesOf(_, _)
StatesOf(snaps, call) ==
  IF snaps = <<>> THEN <<>>
  ELSE IF Head(snaps).errors = call
       THEN <<Head(snaps).state>> \o StatesOf(Tail(snaps), call)
       ELSE StatesOf(Tail(snaps), call)

CallStates == StatesOf(mig.snapshots, mig.call)

\* k snapshots in_progress followed by the terminal states
Shape(st, k, terminal) ==
  /\ Len(st) = k + Len(terminal)
  /\ \A i \in 1..k : st[i] = "in_progress"
  /\ SubSeq(st, k + 1, Len(st)) = terminal

\* C12: the snapshots of one migrate call are one or more in_progress
\* snapshots followed by completed, or by failed and possibly rolled_back;
\* rolled_back is appended exactly when the call aborted, rollbackOnError was
\* requested and at least one vector had been upserted by the call.
C12_SnapshotSequence ==
  mig.pc = "done" =>
    LET st == CallStates IN
    /\ \E k \in 1..Len(st) :
         \/ Shape(st, k, <<"completed">>)
         \/ Shape(st, k, <<"failed">>)
         \/ Shape(st, k, <<"failed", "rolled_back">>)
    /\ st[Len(st)] = "rolled_back" <=>
         (mig.aborted /\ mig.options.rollbackOnError /\ mig.stored >= 1)

CeilDiv(n, k) == (n + k - 1) \div k

CountOf(st, state) == Cardinality({i \in 1..Len(st) : st[i] = state})

\* migrate has returned after running to completion
CompletedNormally == MigReturned /\ ~mig.aborted

\* C13 as stated: a call over N entries with batch size k that completes
\* normally appends exactly ceil(N/k) in_progress snapshots and exactly one
\* completed snapshot.
C13_SnapshotPerBatch ==
  CompletedNormally =>
    /\ CountOf(CallStates, "in_progress")
         = CeilDiv(Len(mig.entries), EffectiveBatchSize(mig.options))
    /\ CountOf(CallStates, "completed") = 1

\* C13 amended: such a call appends exactly 1 + ceil(N/k) in_progress
\* snapshots, one when it starts and one after each batch, and exactly one
\* completed snapshot, which is the last.
C13_SnapshotAtStartAndPerBatch ==
  CompletedNormally =>
    /\ CountOf(CallStates, "in_progress")
         = 1 + CeilDiv(Len(mig.entries), EffectiveBatchSize(mig.options))
    /\ CountOf(CallStates, "completed") = 1
    /\ Len(CallStates) = 2 + CeilDiv(Len(mig.entries), EffectiveBatchSize(mig.options))
    /\ CallStates[Len(CallStates)] = "completed"

\* five entries were migrated in batches of two
C13_Witness ==
  /\ CompletedNormally
  /\ Len(mig.entries) = 5
  /\ mig.options.batchSize = 2
  /\ CountOf(CallStates, "in_progress") = 4

\* C14: on normal completion migrate returns success = (failed = 0) and
\* rollbackRequired = false; on abort it returns success = false and
\* rollbackRequired = rollbackOnError, whether or not a rollback deletion was
\* made; endTime is set before the completed, failed or rolled_back snapshot
\* is taken.
C14_ResultOfMigrate ==
  MigReturned =>
    /\ CountOf(CallStates, "completed") = 1 =>
         /\ ~mig.aborted
         /\ mig.result.success = (mig.progress.failed = 0)
         /\ ~mig.result.rollbackRequired
    /\ CountOf(CallStates, "failed") = 1 =>
         /\ mig.aborted
         /\ ~mig.result.success
         /\ mig.result.rollbackRequired = mig.options.rollbackOnError
    /\ CountOf(CallStates, "completed") + CountOf(CallStates, "failed") = 1
    /\ \A i \in 1..Len(mig.snapshots) :
         mig.snapshots[i].progress.endTime = (mig.snapshots[i].state # "in_progress")

\* an aborted call with rollbackOnError that had nothing to roll back
C14_Witness ==
  /\ MigReturned /\ mig.aborted /\ mig.options.rollbackOnError
  /\ mig.vcalls = <<>>
  /\ LastSnapshot.state = "failed"
  /\ mig.result.rollbackRequired

\* what a reader of snapshot i sees: the copied counters, and the errors
\* list the snapshot shares with the progress of its call
SnapshotView(m, i) ==
  [state |-> m.snapshots[i].state,
   processed |-> m.snapshots[i].progress.processed,
   failed |-> m.snapshots[i].progress.failed,
   endTime |-> m.snapshots[i].progress.endTime,
   errors |-> m.errors[m.snapshots[i].errors]]

\* C15: a snapshot keeps the progress it had when it was appended (processed,
\* failed, errors list, endTime), whatever happens to the progress afterwards.
C15_SnapshotImmutable ==
  [][\A i \in 1..Len(mig.snapshots) :
       /\ i <= Len(mig'.snapshots)
       /\ SnapshotView(mig', i) = SnapshotView(mig, i)]_vars

----------------------------------------------------------------------------
(* Properties of validation in addContext *)

\* the timestamp is a number with an integer value
ValidInteger(ts) == ts \notin {BadTimestamp, NaN, Fractional}

\* the operation made no backend call and left the graph alone
RejectedUpFront(p) ==
  /\ res[p].kind = "return" /\ ~res[p].success
  /\ calls[p] = <<>>
  /\ nodes = pre[p].nodes /\ edges = pre[p].edges

\* C16: addContext returns success:false for an entry whose
\* metadata.timestamp is not a valid integer, without calling the memory store
\* or the vector store and without changing the graph.
C16_InvalidTimestampRejected ==
  \A p \in Procs :
    (Done(p, "addContext") /\ HasMetadata(op[p].entry)
       /\ ~ValidInteger(op[p].entry.metadata.timestamp)) => RejectedUpFront(p)

\* C17: addContext returns success:false for an entry whose vector does not
\* have exactly 1536 elements, before any call to the memory store or the
\* vector store.
C17_WrongDimensionRejected ==
  \A p \in Procs :
    (Done(p, "addContext") /\ HasMetadata(op[p].entry)
       /\ op[p].entry.vector \notin {NoVector, EMBEDDING_DIMENSION}) => RejectedUpFront(p)

----------------------------------------------------------------------------
(* Properties of the failure responses *)

\* err is inner with a non-empty text in front of it
Prefixed(err, inner) ==
  /\ Len(err) > Len(inner)
  /\ SubSeq(err, Len(err) - Len(inner) + 1, Len(err)) = inner

\* C18: when a storage write, a vector upsert or a relationship-tracking call
\* of an operation reports failure, the operation returns success:false whose
\* error is that sub-operation's error with a phase prefix in front; addContext
\* never returns success:true after a failed tracking call.
C18_FailurePrefixedWithPhase ==
  \A p \in Procs :
    (pc[p] = "done" /\ fault[p] \in {"storage", "vector", "relationship"}) =>
      /\ res[p].kind = "return"
      /\ ~res[p].success
      /\ Prefixed(res[p].error, BackendDown)

----------------------------------------------------------------------------
(* Properties of a stored entry *)

\* how many of the backend calls of p went to the named method
CallsTo(p, method) ==
  Cardinality({i \in 1..Len(calls[p]) : calls[p][i] = method})

\* the edges the declared relationships of e stand for, in declaration order
DeclaredEdges(e) ==
  [i \in 1..Len(e.metadata.relationships) |->
     [source |-> e.id, target |-> e.metadata.relationships[i].targetId,
      type |-> e.metadata.relationships[i].type,
      strength |-> e.metadata.relationships[i].strength]]

\* C19: when storeMemory, and upsertVectors for an entry with a vector, have
\* succeeded, addContext returns with the entry as the node of its id, one
\* edge appended per declared relationship in declaration order, one
\* trackRelationship call per declared relationship, and upsertVectors called
\* exactly when the entry carries a vector.
C19_StoredEntryInGraph ==
  \A p \in Procs :
    (Done(p, "addContext") /\ calls[p] # <<>>
       /\ fault[p] \notin {"storage", "vector"}) =>
      LET e == op[p].entry IN
        /\ Has(nodes, e.id) /\ nodes[e.id] = e
        /\ edges = pre[p].edges \o DeclaredEdges(e)
        /\ CallsTo(p, "trackRelationship") = Len(e.metadata.relationships)
        /\ (CallsTo(p, "upsertVectors") = 1) <=> (e.vector # NoVector)
        /\ CallsTo(p, "upsertVectors") <= 1

----------------------------------------------------------------------------
(* Properties of updateContextMetadata on an absent id *)

\* C20: updateContextMetadata on an id that is not a node of the graph returns
\* success:false with the error 'Context not found', makes no backend call and
\* leaves nodes and edges as they were; an id that was added and then deleted
\* is such an id.
C20_UpdateAbsentIdNotFound ==
  \A p \in Procs :
    (Done(p, "updateContextMetadata") /\ op[p].id \notin DOMAIN pre[p].nodes) =>
      /\ res[p].kind = "return"
      /\ ~res[p].success
      /\ res[p].error = "Context not found"
      /\ calls[p] = <<>>
      /\ nodes = pre[p].nodes
      /\ edges = pre[p].edges

\* an update of an id that was a node (its vector-less entry was stored by
\* addContext) and that deleteContext has removed from the graph and the store
C20_Witness ==
  \E p \in Procs :
    /\ Done(p, "updateContextMetadata")
    /\ op[p].id \notin DOMAIN pre[p].nodes
    /\ SeqIndex(memories, op[p].id) = 0
    /\ \E e \in memOK : e.id = op[p].id /\ e.vector = NoVector
    /\ ~res[p].success

----------------------------------------------------------------------------
(* Properties of a successful updateContextMetadata *)

\* C21: after a successful updateContextMetadata(id, partial) the node of id
\* is the old node with every field of partial written over the metadata field
\* of the same name, its other metadata fields, id, content and vector kept;
\* the edges and the other nodes are unchanged, also when partial has a
\* relationships field.
C21_UpdateMergesOverNode ==
  \A p \in Procs :
    (Done(p, "updateContextMetadata") /\ res[p].success) =>
      LET id == op[p].id
          partial == op[p].partial
          old == pre[p].nodes[id]
          new == nodes[id]
      IN /\ DOMAIN nodes = DOMAIN pre[p].nodes
         /\ new.id = old.id /\ new.content = old.content /\ new.vector = old.vector
         /\ DOMAIN new.metadata = (DOMAIN old.metadata) \cup (DOMAIN partial)
         /\ \A k \in DOMAIN partial : new.metadata[k] = partial[k]
         /\ \A k \in (DOMAIN old.metadata) \ (DOMAIN partial) :
              new.metadata[k] = old.metadata[k]
         /\ \A other \in (DOMAIN nodes) \ {id} : nodes[other] = pre[p].nodes[other]
         /\ edges = pre[p].edges

\* a successful update whose partial carries a relationships list that differs
\* from the one of the node
C21_Witness ==
  \E p \in Procs :
    /\ Done(p, "updateContextMetadata") /\ res[p].success
    /\ "relationships" \in DOMAIN op[p].partial
    /\ pre[p].nodes[op[p].id].metadata.relationships # op[p].partial.relationships
    /\ nodes[op[p].id].metadata.relationships = op[p].partial.relationships

----------------------------------------------------------------------------
(* Properties of a failed updateContextMetadata *)

\* the results an unfiltered retrieveContext builds for id from the store mems
RetrievedFor(mems, id) ==
  LET hits == RetrieveMemories(mems, Options(EmptyMap, 0, FALSE, None, None))
      results == PostFilter([i \in 1..Len(hits) |-> ResultOf(hits[i])],
                            Options(EmptyMap, 0, FALSE, None, None))
  IN {results[i] : i \in {j \in 1..Len(results) : results[j].entry.id = id}}

\* C22: when updateContextMetadata returns success:false because a backend
\* call failed, the node of the id is what it was before the call and a
\* following retrieveContext returns the entry with the content and metadata
\* it had before the call.
C22_FailedUpdateKeepsOriginal ==
  \A p \in Procs :
    (Done(p, "updateContextMetadata") /\ ~res[p].success /\ fault[p] # "none") =>
      /\ nodes = pre[p].nodes
      /\ RetrievedFor(memories, op[p].id) = RetrievedFor(pre[p].memories, op[p].id)

----------------------------------------------------------------------------
(* Properties of the filters of retrieveContext *)

\* the backend hit passes the time range and the context types of options
Wanted(hit, options) ==
  /\ IsSome(options.timeRange) =>
       /\ Twice(options.timeRange[1].start) <= Twice(hit.metadata.timestamp)
       /\ Twice(hit.metadata.timestamp) <= Twice(options.timeRange[1].end)
  /\ IsSome(options.contextTypes) => hit.metadata.type \in options.contextTypes[1]

\* the position in hits of the n-th wanted hit
RECURSIVE NthWanted(_, _, _, _)
NthWanted(hits, options, n, from) ==
  IF Wanted(hits[from], options)
  THEN IF n = 1 THEN from ELSE NthWanted(hits, options, n - 1, from + 1)
  ELSE NthWanted(hits, options, n, from + 1)

\* C23: a successful retrieveContext returns exactly the backend hits whose
\* timestamp lies in timeRange (both bounds included) and whose type is one of
\* contextTypes, each option applied only when given, in the order of the
\* backend and each hit once.
C23_PostFilterExact ==
  \A p \in Procs :
    (Done(p, "retrieveContext") /\ res[p].success) =>
      LET options == op[p].options
          hits == RetrieveMemories(memories, options)
          wanted == {i \in 1..Len(hits) : Wanted(hits[i], options)}
          contexts == res[p].contexts
      IN /\ Len(contexts) = Cardinality(wanted)
         /\ \A n \in 1..Len(contexts) :
              LET hit == hits[NthWanted(hits, options, n, 1)] IN
                /\ contexts[n].entry.id = hit.metadata.id
                /\ contexts[n].entry.content = hit.content
                /\ contexts[n].entry.metadata = hit.metadata

\* a retrieveContext with a time range whose end is the timestamp of a
\* returned hit and which has dropped another hit
C23_Witness ==
  \E p \in Procs :
    /\ Done(p, "retrieveContext") /\ res[p].success
    /\ IsSome(op[p].options.timeRange)
    /\ res[p].contexts # <<>>
    /\ \E n \in 1..Len(res[p].contexts) :
         res[p].contexts[n].entry.metadata.timestamp = op[p].options.timeRange[1].end
    /\ Len(res[p].contexts) < Len(memories)

----------------------------------------------------------------------------
(* Properties of includeRelated *)

\* the n-th smallest member of a set of positions
Nth(S, n) == CHOOSE i \in S : Cardinality({j \in S : j < i}) = n - 1

\* the graph nodes of the ids getRelatedMemories returns for id, in its order
ExpectedRelated(id) ==
  LET related == GetRelatedMemories(relationships, id, "")
      known == {i \in 1..Len(related) : related[i].id \in DOMAIN nodes}
  IN [n \in 1..Cardinality(known) |-> nodes[related[Nth(known, n)].id]]

\* C24: with includeRelated the relatedEntries of a hit are the graph nodes of
\* the ids getRelatedMemories returns for it, ids without a node left out; a
\* failed lookup leaves the hit without relatedEntries and retrieveContext
\* still returns success:true with every hit.  Without includeRelated no
\* lookup is made.
C24_RelatedEntriesResolved ==
  \A p \in Procs :
    (Done(p, "retrieveContext") /\ fault[p] # "retrieve") =>
      LET options == op[p].options
          hits == RetrieveMemories(memories, options)
          contexts == res[p].contexts
      IN IF options.includeRelated
         THEN /\ res[p].success
              /\ Len(contexts) = Len(hits)
              /\ CallsTo(p, "getRelatedMemories") = Len(hits)
              /\ \A i \in 1..Len(contexts) :
                   /\ contexts[i].entry.id = hits[i].metadata.id
                   /\ contexts[i].relatedEntries
                        \in {None, Some(ExpectedRelated(hits[i].metadata.id))}
                   /\ fault[p] = "none" => contexts[i].relatedEntries # None
              /\ fault[p] = "related" =>
                   \E i \in 1..Len(contexts) : contexts[i].relatedEntries = None
         ELSE /\ CallsTo(p, "getRelatedMemories") = 0
              /\ \A i \in 1..Len(contexts) : contexts[i].relatedEntries = None

\* a hit whose related ids are one id without a node and one id with a node,
\* resolved to that node alone
C24_Witness ==
  \E p \in Procs :
    /\ Done(p, "retrieveContext") /\ res[p].success
    /\ op[p].options.includeRelated
    /\ \E i \in 1..Len(res[p].contexts) :
         LET id == res[p].contexts[i].entry.id
             related == GetRelatedMemories(relationships, id, "") IN
           /\ Len(related) = 2
           /\ related[1].id \notin DOMAIN nodes
           /\ related[2].id \in DOMAIN nodes
           /\ res[p].contexts[i].relatedEntries = Some(<<nodes[related[2].id]>>)

----------------------------------------------------------------------------
(* Properties of the DefaultMigrationTransformer *)

\* the field k of both metadata is absent, or present with the same value
SameField(x, y, k) ==
  /\ (k \in DOMAIN x) <=> (k \in DOMAIN y)
  /\ k \in DOMAIN x => x[k] = y[k]

\* the field k is the same when an absent field is read as dflt
SameFieldOr(x, y, k, dflt) ==
  (IF k \in DOMAIN x THEN x[k] ELSE dflt) = (IF k \in DOMAIN y THEN y[k] ELSE dflt)

\* the timestamps are the same number
SameNumber(x, y) == x = y /\ x # NaN

----------------------------------------------------------------------------
(* Properties of the snapshot history across migrate calls *)

\* one step of the service or of the caller keeps the history append-only
HistoryStep ==
  \* modifying the array returned by getSnapshots leaves the history alone
  /\ (obs' # obs /\ obs'.modified) =>
       mig'.snapshots = mig.snapshots
  \* getSnapshots returns the snapshots, getLatestSnapshot the last of them
  /\ (obs' # obs /\ ~obs'.modified) =>
       /\ obs'.list = mig.snapshots
       /\ mig.snapshots # <<>> => obs'.latest = mig.snapshots[Len(mig.snapshots)]
       /\ mig'.snapshots = mig.snapshots
  \* the snapshots stay where they are, and those of earlier calls as they are
  /\ Len(mig.snapshots) <= Len(mig'.snapshots)
  /\ \A i \in 1..Len(mig.snapshots) :
       /\ mig'.snapshots[i] = mig.snapshots[i]
       /\ mig.snapshots[i].errors < mig'.call =>
            SnapshotView(mig', i) = SnapshotView(mig, i)
  \* a call starts from a fresh progress
  /\ (mig.pc = "idle" /\ mig'.pc # "idle") =>
       /\ mig'.call = mig.call + 1
       /\ mig'.progress.processed = 0 /\ mig'.progress.failed = 0
       /\ mig'.errors[mig'.call] = <<>>
       /\ mig'.snapshots[Len(mig.snapshots) + 1].state = "in_progress"
       /\ mig'.snapshots[Len(mig.snapshots) + 1].progress.processed = 0
       /\ mig'.snapshots[Len(mig.snapshots) + 1].progress.failed = 0

----------------------------------------------------------------------------
(* Properties of the edges of the graph *)

\* C27: in every reachable state, also when addContext and deleteContext of
\* the same id run concurrently, the source of every edge is the id of a node
\* of the graph; the target of an edge need not be one.
C27_EdgeSourceIsNode ==
  \A i \in 1..Len(edges) : edges[i].source \in DOMAIN nodes

----------------------------------------------------------------------------
(* Properties of the order of work in migrate *)

\* the position in the input of the first entry recorded as failed
FirstFailed ==
  CHOOSE k \in 1..Len(mig.entries) : mig.entries[k].id = mig.errors[mig.call][1].id

\* C28: with rollbackOnError, migrate stops at the first entry that fails its
\* transformation or validation: the entries transformed are those up to it in
\* input order, no upsert is made for its batch or a later one, and
\* progress.failed is 1 when migrate returns.
C28_AbortAtFirstFailure ==
  (mig.pc = "done" /\ mig.options.rollbackOnError /\ mig.entryFailed) =>
    /\ mig.progress.failed = 1
    /\ Len(mig.errors[mig.call]) = 1
    /\ Len(mig.seen) = FirstFailed
    /\ \A n \in 1..Len(mig.seen) : mig.seen[n].k = n
    /\ \A u \in 1..Len(mig.upserts) :
         mig.upserts[u].at + EffectiveBatchSize(mig.options) < FirstFailed

\* a call with rollbackOnError whose second batch holds the failing entry,
\* with an entry after it, has returned
C28_Witness ==
  /\ mig.pc = "done"
  /\ mig.options.rollbackOnError
  /\ mig.entryFailed
  /\ mig.upserts # <<>>
  /\ FirstFailed < Len(mig.entries)
  /\ mig.progress.processed > 0

\* entry k was transformed and is not recorded as failed
Passed(k) ==
  /\ \E n \in 1..Len(mig.seen) : mig.seen[n].k = k
  /\ \A n \in 1..Len(mig.errors[mig.call]) :
       mig.errors[mig.call][n].id # mig.entries[k].id

\* the records of the entries of the batch at offset at that passed, in order
PassedRecords(at) ==
  LET last == IF at + EffectiveBatchSize(mig.options) < Len(mig.entries)
              THEN at + EffectiveBatchSize(mig.options) ELSE Len(mig.entries)
      passed == {k \in (at + 1)..last : Passed(k)}
  IN [n \in 1..Cardinality(passed) |->
        memoryToVector(mig.entries[Nth(passed, n)], EMBEDDING_DIMENSION)]

\* C29: without validateOnly migrate makes one upsert call per batch it
\* processes, batch after batch from the first (every batch when it completes
\* normally), with exactly the records of the entries of that batch that were
\* transformed and passed validate, in entry order; no record of a failed entry
\* is upserted, and progress.processed is the number of entries that passed.
C29_OneUpsertPerBatch ==
  mig.pc = "done" =>
    /\ mig.progress.processed = Cardinality({k \in 1..Len(mig.entries) : Passed(k)})
    /\ mig.options.validateOnly => mig.upserts = <<>>
    /\ ~mig.options.validateOnly =>
         /\ \A u \in 1..Len(mig.upserts) :
              /\ mig.upserts[u].at = (u - 1) * EffectiveBatchSize(mig.options)
              /\ mig.upserts[u].records = PassedRecords(mig.upserts[u].at)
              /\ \A n \in 1..Len(mig.upserts[u].records) :
                   \A x \in 1..Len(mig.errors[mig.call]) :
                     mig.upserts[u].records[n].id # mig.errors[mig.call][x].id
         /\ CompletedNormally =>
              Len(mig.upserts) = CeilDiv(Len(mig.entries), EffectiveBatchSize(mig.options))

\* a call that completed normally with two upsert calls, one of them for a
\* batch of a failed entry and an entry whose embedding was generated
C29_Witness ==
  /\ CompletedNormally
  /\ ~mig.options.validateOnly
  /\ Len(mig.upserts) >= 2
  /\ mig.progress.failed > 0
  /\ \E u \in 1..Len(mig.upserts) :
       /\ Len(mig.upserts[u].records) = 1
       /\ EffectiveBatchSize(mig.options) = 2
       /\ mig.upserts[u].at + 2 <= Len(mig.entries)
       /\ \E k \in (mig.upserts[u].at + 1)..(mig.upserts[u].at + 2) :
            mig.entries[k].vector = NoVector /\ Passed(k)

\* the batch of entry k, counted from 0
BatchOf(k) == (k - 1) \div EffectiveBatchSize(mig.options)

\* C30: within one migrate call the entries are transformed one at a time in
\* input order, and when an entry of batch b (counted from 0) is transformed,
\* the b batches before it have each had their upsert call answered (unless
\* validateOnly) and their in_progress snapshot appended, the snapshot of
\* batch b - 1 covering exactly the entries before batch b.
C30_BatchesSequential ==
  \A n \in 1..Len(mig.seen) :
    /\ mig.seen[n].k = n
    /\ mig.seen[n].snaps = 1 + BatchOf(n)
    /\ mig.seen[n].calls = IF mig.options.validateOnly THEN 0 ELSE BatchOf(n)
    /\ \A c \in 1..mig.seen[n].calls : mig.vcalls[c] = "upsertVectors"
    /\ \A c \in 1..mig.seen[n].calls :
         mig.upserts[c].at = (c - 1) * EffectiveBatchSize(mig.options)
    /\ \A x \in 1..mig.seen[n].snaps :
         /\ mig.snapshots[x].state = "in_progress"
         /\ mig.snapshots[x].progress.processed + mig.snapshots[x].progress.failed
              = (x - 1) * EffectiveBatchSize(mig.options)

\* a call of batches of two entries that has transformed the second entry of
\* its second batch, the first batch upserted
C30_Witness ==
  /\ ~mig.options.validateOnly
  /\ EffectiveBatchSize(mig.options) = 2
  /\ Len(mig.seen) >= 4
  /\ mig.seen[4].calls = 1
  /\ mig.seen[4].snaps = 2

----------------------------------------------------------------------------
(* Properties of rollback *)

\* the ids of the records the current call has passed to upsertVectors
UpsertedIds ==
  UNION {{mig.upserts[u].records[n].id : n \in 1..Len(mig.upserts[u].records)} :
           u \in 1..Len(mig.upserts)}

----------------------------------------------------------------------------
(* Properties of the request of retrieveContext *)

\* C32: the request retrieveContext issues to the backend carries the filter
\* and topK of the caller and neither timeRange nor contextTypes, so that two
\* calls that differ only in these two options issue the same request.
C32_RequestWithoutPostFilter ==
  \A p \in Procs :
    (op[p].name = "retrieveContext" /\ pc[p] = "ret_query") =>
      /\ op[p].request.filter = op[p].options.filter
      /\ op[p].request.topK = op[p].options.topK
      /\ op[p].request.timeRange = None
      /\ op[p].request.contextTypes = None

----------------------------------------------------------------------------
(* Properties of the two backends taken together *)

\* C33: when addContext or deleteContext returns success:false, the memory
\* store and the vector store hold what they held before the call.
C33_BackendsAllOrNothing ==
  \A p \in Procs :
    (/\ pc[p] = "done"
     /\ op[p].name \in {"addContext", "deleteContext"}
     /\ res[p].kind = "return"
     /\ ~res[p].success) =>
      /\ memories = pre[p].memories
      /\ vectors = pre[p].vectors

\* C34: when migrate has aborted and rolled back, every deletion carried out,
\* the backend holds exactly the records it held before the call.
C34_RollbackRestoresBackend ==
  (/\ MigReturned
   /\ mig.aborted
   /\ LastSnapshot.state = "rolled_back"
   /\ ~mig.deleteFailed
   /\ ~mig.upsertFailed) =>
    vectors = mig.before

----------------------------------------------------------------------------
(* Properties of the edges against the declared relationships *)

\* the (target, type) pairs of the edges whose source is id
EdgePairs(id) ==
  {<<edges[i].target, edges[i].type>> : i \in {j \in 1..Len(edges) : edges[j].source = id}}

\* the (target, type) pairs the node of id declares in its metadata
DeclaredPairs(id) ==
  LET rels == nodes[id].metadata.relationships
  IN {<<rels[i].targetId, rels[i].type>> : i \in 1..Len(rels)}

\* C35: between operations, every backend call so far having succeeded, the
\* edges whose source is a node n stand for exactly the relationships the
\* metadata of n declares: no stale edge and no declared one missing.
C35_EdgesMirrorDeclared ==
  (faults = 0 /\ \A p \in Procs : pc[p] \in {"off", "idle", "done"}) =>
    \A id \in DOMAIN nodes : EdgePairs(id) = DeclaredPairs(id)

----------------------------------------------------------------------------
(* Properties of the loop of migrate *)

\* C36: whatever batchSize is passed, migrate works through its entries in at
\* most one batch per entry and returns: the offset of its loop never goes
\* below 0, and a call over N entries takes at most N + 3 snapshots (the first
\* one, one per batch, the final one and rolled_back).
C36_MigrateTerminates ==
  mig.pc \notin {"off", "idle"} =>
    /\ mig.i >= 0
    /\ Len(mig.snapshots) <= Len(mig.entries) + 3

----------------------------------------------------------------------------
(* Properties of the progress counters *)

\* C37: during a migrate call the progress, and every snapshot of the call as
\* a reader finds it, has processed >= 0, failed >= 0, processed + failed <=
\* total and failed equal to the number of its errors, and processed and
\* failed do not decrease from one snapshot to the next.
C37_ProgressCountersConsistent ==
  mig.pc \notin {"off", "idle"} =>
    /\ mig.progress.processed >= 0
    /\ mig.progress.failed >= 0
    /\ mig.progress.processed + mig.progress.failed <= mig.progress.total
    /\ mig.progress.failed = Len(mig.errors[mig.call])
    /\ \A i \in 1..Len(mig.snapshots) :
         /\ SnapshotView(mig, i).processed >= 0
         /\ SnapshotView(mig, i).failed >= 0
         /\ SnapshotView(mig, i).processed + SnapshotView(mig, i).failed
              <= mig.snapshots[i].progress.total
         /\ SnapshotView(mig, i).failed = Len(SnapshotView(mig, i).errors)
         /\ i > 1 =>
              /\ SnapshotView(mig, i - 1).processed <= SnapshotView(mig, i).processed
              /\ SnapshotView(mig, i - 1).failed <= SnapshotView(mig, i).failed

----------------------------------------------------------------------------
(* Properties of validation in addContext: what is accepted *)

\* C38: addContext never answers an entry whose metadata.timestamp is a valid
\* integer, 0 included, with the invalid-timestamp error.
C38_ValidTimestampAccepted ==
  \A p \in Procs :
    (Done(p, "addContext") /\ HasMetadata(op[p].entry)
       /\ ValidInteger(op[p].entry.metadata.timestamp)) =>
      res[p].error # "Invalid metadata: timestamp must be a number"

----------------------------------------------------------------------------
(* Properties of the connection status of the PineconeStore *)

\* C39: getConnectionStatus().isConnected is true only if the probe that
\* completed last succeeded and dispose was not called since initialize was
\* last called; a failed probe leaves isConnected false with lastError set;
\* and once dispose was called, until initialize is called again, isConnected
\* is false and no tick probes the index.
C39_StatusFollowsProbes ==
  /\ getConnectionStatus(store).isConnected =>
       /\ store.lastProbe = "ok"
       /\ ~store.disposedSince
  /\ store.last = "probe_failed" =>
       /\ ~getConnectionStatus(store).isConnected
       /\ getConnectionStatus(store).lastError # NoError
  /\ store.disposedSince =>
       /\ ~getConnectionStatus(store).isConnected
       /\ ~store.tickProbed

====
